---- MODULE Spec2Model ----
(***************************************************************************)
(* A model of the kOps reconciliation tasks of this repository:            *)
(*   - awstasks.NetworkLoadBalancer (Find, Normalize, CheckChanges,        *)
(*     RenderAWS)                                                          *)
(*   - scalewaytasks.Instance (Find, CheckChanges, RenderScw)              *)
(* Pointers are modelled by their value, with Nil for the nil pointer.     *)
(***************************************************************************)
EXTENDS Integers, Sequences, FiniteSets, TLC

VARIABLES
    nlbCk,      \* NetworkLoadBalancer.CheckChanges: its arguments and its result
    scwCk,      \* Instance.CheckChanges: its arguments and its result
    norm,       \* NetworkLoadBalancer.Normalize: two tasks holding the same elements
    scwTask,    \* the expected Instance task of the instance group
    scwServers, \* the servers of the instance group in the Scaleway cloud
    scwOut,     \* the last run of the Instance task: what it found, did and returned
    nlbTask,    \* the expected NetworkLoadBalancer task
    nlbCloud,   \* the load balancer in the AWS cloud, if any
    nlbOut,     \* the last run of the NetworkLoadBalancer task
    findCk,     \* one call of Find: the task, the cloud, and what Find returned
    byName,     \* one call of findNetworkLoadBalancerByLoadBalancerName
    exec,       \* one apply pass of the executor over a task graph
    delCk,      \* one call of NetworkLoadBalancer.FindDeletions
    osCk,       \* one call of an OpenStack cloud function
    nodeup,     \* the calls of nodeup.NewConfig for the instance groups of a cluster
    gceFw       \* one call of GCEModelContext.AddFirewallRulesTasks

scwVars == <<scwTask, scwServers, scwOut>>
nlbVars == <<nlbTask, nlbCloud, nlbOut>>
coreVars == <<nlbCk, scwCk, norm, scwVars, nlbVars, findCk>>
lbVars == <<byName, exec, delCk, osCk>>
cfgVars == <<nodeup, gceFw>>
vars == <<coreVars, lbVars, cfgVars>>

(***************************************************************************)
(* Values shared by the tasks                                              *)
(***************************************************************************)
Nil == "nil"

\* fi.ValueOf: the value behind a pointer, the zero value ("") behind nil
ValueOf(p) == IF p = Nil THEN "" ELSE p

NoError == [kind |-> "nil", msg |-> ""]
RequiredField(f) == [kind |-> "RequiredField", msg |-> f]
CannotChangeField(f) == [kind |-> "CannotChangeField", msg |-> f]
Errorf(m) == [kind |-> "error", msg |-> m]

Min(S) == CHOOSE x \in S : \A y \in S : x <= y

(***************************************************************************)
(* awstasks.NetworkLoadBalancer.CheckChanges                               *)
(***************************************************************************)
MaxActualSubnets == 2
MaxExpectedSubnets == 3

SubnetIDs == <<"subnet-a", "subnet-b", "subnet-c">>
SubnetIndex(id) == CHOOSE i \in 1..Len(SubnetIDs) : SubnetIDs[i] = id

\* the address settings a subnet mapping can carry
AddressSettings ==
    { [AllocationID |-> Nil, PrivateIPv4Address |-> Nil],
      [AllocationID |-> "eipalloc-1", PrivateIPv4Address |-> Nil],
      [AllocationID |-> Nil, PrivateIPv4Address |-> "10.0.0.10"] }

SubnetMapping(id, addr) ==
    [ID |-> id, AllocationID |-> addr.AllocationID,
     PrivateIPv4Address |-> addr.PrivateIPv4Address]

SubnetMappings ==
    { SubnetMapping(SubnetIDs[i], ad) : i \in 1..Len(SubnetIDs), ad \in AddressSettings }

\* lists of subnet mappings of at most n elements, no subnet twice
SubnetMappingLists(n) ==
    UNION { { s \in [1..k -> SubnetMappings] :
                \A i, j \in 1..k : i # j => s[i].ID # s[j].ID } : k \in 0..n }

\* the lists among them that are in the order Normalize leaves them in
IsSortedByID(s) ==
    \A i, j \in 1..Len(s) : i < j => SubnetIndex(s[i].ID) < SubnetIndex(s[j].ID)

SubnetIDsOf(s) == { s[i].ID : i \in 1..Len(s) }

NilNLB == [nil |-> TRUE]

NilAccessLog == [nil |-> TRUE]
AccessLogs ==
    { NilAccessLog,
      [Enabled |-> Nil, S3BucketName |-> Nil],
      [Enabled |-> "false", S3BucketName |-> Nil],
      [Enabled |-> "true", S3BucketName |-> Nil],
      [Enabled |-> "true", S3BucketName |-> "logs"] }

\* lines 522-531: expectedSubnets, the map from subnet ID to the address the
\* expected mapping carries; a later mapping of the same subnet overwrites
ExpectedSubnetsHas(e, id) == \E i \in 1..Len(e.SubnetMappings) : e.SubnetMappings[i].ID = id

ExpectedSubnetsAt(e, id) ==
    LET last == CHOOSE i \in 1..Len(e.SubnetMappings) :
                    /\ e.SubnetMappings[i].ID = id
                    /\ \A j \in 1..Len(e.SubnetMappings) :
                          e.SubnetMappings[j].ID = id => j <= i
        s == e.SubnetMappings[last]
    IN  IF s.AllocationID # Nil THEN s.AllocationID
        ELSE IF s.PrivateIPv4Address # Nil THEN s.PrivateIPv4Address
        ELSE Nil

\* line 538: the address-settings comparison of one actual subnet mapping
AddressSettingsDiffer(eIP, s) ==
    \/ ValueOf(eIP) # ValueOf(s.PrivateIPv4Address)
    \/ ValueOf(eIP) # ValueOf(s.AllocationID)

\* lines 533-541: the verdict on the i-th actual subnet mapping
Detached(a, e, i) == ~ ExpectedSubnetsHas(e, a.SubnetMappings[i].ID)

CheckSubnetAt(a, e, i) ==
    LET s == a.SubnetMappings[i] IN
    IF Detached(a, e, i)
    THEN Errorf("network load balancers do not support detaching subnets")
    ELSE IF AddressSettingsDiffer(ExpectedSubnetsAt(e, s.ID), s)
    THEN Errorf("network load balancers do not support modifying address settings")
    ELSE NoError

CheckSubnets_Last(a, e) ==
    IF Len(a.SubnetMappings) = 0 THEN NoError
    ELSE CheckSubnetAt(a, e, Len(a.SubnetMappings))

\* the loop returns at the first actual subnet mapping it rejects
CheckSubnets(a, e) ==
    LET bad == { i \in 1..Len(a.SubnetMappings) : CheckSubnetAt(a, e, i) # NoError }
    IN  IF bad = {} THEN NoError ELSE CheckSubnetAt(a, e, Min(bad))

NLBCheckCreate_NoSubnets(e) ==
    IF ValueOf(e.Name) = "" THEN RequiredField("Name")
    ELSE NoError

\* lines 496-519: creation
NLBCheckCreate(e) ==
    IF ValueOf(e.Name) = "" THEN RequiredField("Name")
    ELSE IF Len(e.SubnetMappings) = 0 THEN RequiredField("SubnetMappings")
    ELSE IF e.CrossZoneLoadBalancing # Nil /\ e.CrossZoneLoadBalancing = Nil
         THEN RequiredField("CrossZoneLoadBalancing")
    ELSE IF e.AccessLog # NilAccessLog /\ e.AccessLog.Enabled = Nil
         THEN RequiredField("Accesslog.Enabled")
    ELSE IF /\ e.AccessLog # NilAccessLog
            /\ e.AccessLog.Enabled = "true"
            /\ e.AccessLog.S3BucketName = Nil
         THEN RequiredField("Accesslog.S3Bucket")
    ELSE NoError

NLBCheckChanges(a, e, changes) ==
    IF a = NilNLB THEN NLBCheckCreate(e)
    ELSE IF Len(changes.SubnetMappings) > 0 THEN CheckSubnets(a, e)
    ELSE NoError

\* the arguments CheckChanges is called with: the expected task is normalized
\* (its subnet mappings sorted), the actual one lists them in the cloud's
\* order, and changes carries the expected subnet mappings or none
NLBCheckExpected ==
    [ Name : {Nil, "", "api.cluster1"},
      SubnetMappings : { s \in SubnetMappingLists(MaxExpectedSubnets) : IsSortedByID(s) },
      CrossZoneLoadBalancing : {Nil, "true"},
      AccessLog : AccessLogs ]

NLBCheckActual ==
    {NilNLB} \cup [ SubnetMappings : SubnetMappingLists(MaxActualSubnets) ]

NLBCheckInit ==
    \E a \in NLBCheckActual, e \in NLBCheckExpected :
    \E ch \in {<<>>, e.SubnetMappings} :
        nlbCk = [pc |-> "call", a |-> a, e |-> e,
                 changes |-> [SubnetMappings |-> ch], err |-> NoError]

NLBCheckIdle == nlbCk = [pc |-> "idle"]

DoNLBCheckChanges ==
    /\ nlbCk.pc = "call"
    /\ nlbCk' = [nlbCk EXCEPT !.pc = "done",
                              !.err = NLBCheckChanges(nlbCk.a, nlbCk.e, nlbCk.changes)]
    /\ UNCHANGED <<scwCk, norm, scwVars, nlbVars, findCk, lbVars, cfgVars>>

(***************************************************************************)
(* scalewaytasks.Instance.CheckChanges                                     *)
(***************************************************************************)
NilInstance == [nil |-> TRUE]

\* the fields CheckChanges reads, in the order it reads them
ImmutableFields == <<"Name", "Zone", "CommercialType", "Image">>

InstanceFieldValue(f) ==
    CASE f = "Name" -> "nodes-fr-par-1"
      [] f = "Zone" -> "fr-par-1"
      [] f = "CommercialType" -> "DEV1-M"
      [] f = "Image" -> "ubuntu_jammy"

\* the first field of ImmutableFields that is in the set fields, "" if none
FirstField(fields) ==
    LET hit == { i \in 1..Len(ImmutableFields) : ImmutableFields[i] \in fields }
    IN  IF hit = {} THEN "" ELSE ImmutableFields[Min(hit)]

InstanceCheckUpdate_NoImage(changes) ==
    IF changes.Name # Nil THEN CannotChangeField("Name")
    ELSE IF changes.Zone # Nil THEN CannotChangeField("Zone")
    ELSE IF changes.CommercialType # Nil THEN CannotChangeField("CommercialType")
    ELSE NoError

\* lines 102-114: update
InstanceCheckUpdate(changes) ==
    IF changes.Name # Nil THEN CannotChangeField("Name")
    ELSE IF changes.Zone # Nil THEN CannotChangeField("Zone")
    ELSE IF changes.CommercialType # Nil THEN CannotChangeField("CommercialType")
    ELSE IF changes.Image # Nil THEN CannotChangeField("Image")
    ELSE NoError

InstanceCheckCreate_NoImage(expected) ==
    IF expected.Name = Nil THEN RequiredField("Name")
    ELSE IF expected.Zone = Nil THEN RequiredField("Zone")
    ELSE IF expected.CommercialType = Nil THEN RequiredField("CommercialType")
    ELSE NoError

\* lines 115-128: creation
InstanceCheckCreate(expected) ==
    IF expected.Name = Nil THEN RequiredField("Name")
    ELSE IF expected.Zone = Nil THEN RequiredField("Zone")
    ELSE IF expected.CommercialType = Nil THEN RequiredField("CommercialType")
    ELSE IF expected.Image = Nil THEN RequiredField("Image")
    ELSE NoError

InstanceCheckChanges(actual, expected, changes) ==
    IF actual # NilInstance THEN InstanceCheckUpdate(changes)
    ELSE InstanceCheckCreate(expected)

\* The delta run method behind Instance.Run: a task whose delta is empty is
\* neither checked nor rendered, and a delta CheckChanges rejects is never
\* rendered.
RunRenders(changed, checkErr) == changed /\ checkErr = NoError

\* the arguments: each of the four fields set or unset, in expected and in
\* changes; other is whether changes carries any other field (Count, Role, ...)
InstanceCheckFields ==
    [ Name : {Nil, InstanceFieldValue("Name")},
      Zone : {Nil, InstanceFieldValue("Zone")},
      CommercialType : {Nil, InstanceFieldValue("CommercialType")},
      Image : {Nil, InstanceFieldValue("Image")} ]

ScwCheckInit ==
    \E a \in {NilInstance, [f \in {"Name", "Zone", "CommercialType", "Image"}
                              |-> InstanceFieldValue(f)]},
       e \in InstanceCheckFields, ch \in InstanceCheckFields, other \in BOOLEAN :
        scwCk = [pc |-> "call", a |-> a, e |-> e, changes |-> ch, other |-> other,
                 err |-> NoError, rendered |-> FALSE]

HasImmutableChange(ch) == \E i \in 1..Len(ImmutableFields) : ch[ImmutableFields[i]] # Nil

DoScwCheckChanges ==
    /\ scwCk.pc = "call"
    /\ LET err == InstanceCheckChanges(scwCk.a, scwCk.e, scwCk.changes)
           changed == HasImmutableChange(scwCk.changes) \/ scwCk.other
       IN  scwCk' = [scwCk EXCEPT !.pc = "done", !.err = err,
                                  !.rendered = RunRenders(changed, err)]
    /\ UNCHANGED <<nlbCk, norm, scwVars, nlbVars, findCk, lbVars, cfgVars>>

(***************************************************************************)
(* awstasks.NetworkLoadBalancer.Normalize                                  *)
(***************************************************************************)
MaxNormalizeLen == 2

\* sort.Stable: the elements in ascending order of Less, elements that Less
\* does not order staying in their input order
\* less[i, j] is Less(i, j) of the sort.Interface
StableSort(s, less) ==
    LET Before(j, i) == less[j, i] \/ (~ less[i, j] /\ j < i)
        Rank(i) == Cardinality({ j \in 1..Len(s) : Before(j, i) }) + 1
    IN  [ k \in 1..Len(s) |-> s[CHOOSE i \in 1..Len(s) : Rank(i) = k] ]

\* subnet and target group names, in string order
SubnetNames == <<"a", "b", "c">>
TargetGroupNames == <<"tcp-cluster1", "tls-cluster1">>
KopsControllerTargetGroupName == "kops-controller-cluster1"
TargetGroupOrder == <<KopsControllerTargetGroupName>> \o TargetGroupNames

\* the position of a name in string order; the empty string comes first
NameIndex(names, n) ==
    IF ValueOf(n) = "" THEN 0 ELSE CHOOSE i \in 1..Len(names) : names[i] = n

ListenerLess_Never(x, y) == FALSE

\* lines 140-142: OrderListenersByPort.Less
ListenerLess(x, y) == x.Port < y.Port

\* OrderSubnetMappingsByName.Less: by the name of the subnet
SubnetMappingLess(x, y) == NameIndex(SubnetNames, x.Name) < NameIndex(SubnetNames, y.Name)

\* OrderTargetGroupsByName.Less: by the name of the target group
TargetGroupLess(x, y) ==
    NameIndex(TargetGroupOrder, x.Name) < NameIndex(TargetGroupOrder, y.Name)

\* the three sort.Interface implementations Normalize sorts with
OrderListenersByPort(a) ==
    [ i \in 1..Len(a), j \in 1..Len(a) |-> ListenerLess(a[i], a[j]) ]
OrderSubnetMappingsByName(a) ==
    [ i \in 1..Len(a), j \in 1..Len(a) |-> SubnetMappingLess(a[i], a[j]) ]
OrderTargetGroupsByName(a) ==
    [ i \in 1..Len(a), j \in 1..Len(a) |-> TargetGroupLess(a[i], a[j]) ]

\* lines 483-490: ipv4 as soon as one subnet of the task is a cluster subnet
\* without an IPv6 CIDR, dualstack otherwise; ipv4Only are the names of the
\* cluster subnets whose IPv6CIDR is ""
NormalIpAddressType(subnetMappings, ipv4Only) ==
    IF \E i \in 1..Len(subnetMappings) : subnetMappings[i].Name \in ipv4Only
    THEN "ipv4" ELSE "dualstack"

\* lines 477-493
Normalize(e, ipv4Only) ==
    [e EXCEPT !.SubnetMappings = StableSort(e.SubnetMappings, OrderSubnetMappingsByName(e.SubnetMappings)),
              !.Listeners = StableSort(e.Listeners, OrderListenersByPort(e.Listeners)),
              !.TargetGroups = StableSort(e.TargetGroups, OrderTargetGroupsByName(e.TargetGroups)),
              !.IpAddressType = NormalIpAddressType(e.SubnetMappings, ipv4Only)]

\* the elements the lists of a task are made of
NamedSubnetMappings ==
    { [ID |-> SubnetIDs[i], Name |-> SubnetNames[i],
       AllocationID |-> Nil, PrivateIPv4Address |-> Nil] : i \in 1..Len(SubnetNames) }

\* the subnet mappings Find builds from the load balancer: the ID alone
FoundSubnetMappings ==
    { [ID |-> SubnetIDs[i], Name |-> Nil,
       AllocationID |-> Nil, PrivateIPv4Address |-> Nil] : i \in 1..1 }

ListenerPorts == {443, 3988}

\* port 443 forwards to either target group, port 3988 to the first
Listeners ==
    { l \in [ Port : ListenerPorts,
              TargetGroupName : { TargetGroupNames[i] : i \in 1..Len(TargetGroupNames) } ] :
        l.Port = 3988 => l.TargetGroupName = TargetGroupNames[1] }

TargetGroupARN(n) == IF n = Nil THEN Nil ELSE "arn:" \o n

TargetGroups ==
    { [Name |-> TargetGroupNames[i], ARN |-> TargetGroupARN(TargetGroupNames[i])] :
        i \in 1..Len(TargetGroupNames) }

\* the lists of at most n distinct elements of S, in every order
ListsOf(S, n) ==
    UNION { { s \in [1..k -> S] : \A i, j \in 1..k : i # j => s[i] # s[j] } : k \in 0..n }

\* the lists holding the elements of s, in every order
Reorderings(s) ==
    { t \in [1..Len(s) -> { s[i] : i \in 1..Len(s) }] :
        \A i, j \in 1..Len(s) : i # j => t[i] # t[j] }

\* the cluster subnets without an IPv6 CIDR
ClusterIPv4Only == { {}, {"c"} }

NormalizeInit ==
    \E sm \in ListsOf(NamedSubnetMappings \cup FoundSubnetMappings, MaxNormalizeLen),
       ls \in ListsOf(Listeners, MaxNormalizeLen),
       tg \in ListsOf(TargetGroups, MaxNormalizeLen),
       ipv4Only \in ClusterIPv4Only :
    \E sm2 \in Reorderings(sm), ls2 \in Reorderings(ls), tg2 \in Reorderings(tg) :
        LET t1 == [SubnetMappings |-> sm, Listeners |-> ls, TargetGroups |-> tg,
                   IpAddressType |-> Nil]
            t2 == [SubnetMappings |-> sm2, Listeners |-> ls2, TargetGroups |-> tg2,
                   IpAddressType |-> Nil]
        IN  norm = [pc |-> 0, ipv4Only |-> ipv4Only, in1 |-> t1, in2 |-> t2,
                    t1 |-> t1, t2 |-> t2, prev1 |-> t1, prev2 |-> t2]

NormalizeIdle == norm = [pc |-> 0 - 1]

\* Normalize runs on both tasks; it can run again on its own result
DoNormalize ==
    /\ norm.pc \in {0, 1}
    /\ norm' = [norm EXCEPT !.pc = norm.pc + 1,
                            !.prev1 = norm.t1,
                            !.prev2 = norm.t2,
                            !.t1 = Normalize(norm.t1, norm.ipv4Only),
                            !.t2 = Normalize(norm.t2, norm.ipv4Only)]
    /\ UNCHANGED <<nlbCk, scwCk, scwVars, nlbVars, findCk, lbVars, cfgVars>>

(***************************************************************************)
(* scalewaytasks.Instance: Find, Run and RenderScw against the cloud       *)
(***************************************************************************)
MaxCount == 2

TagRoleControlPlane == "ControlPlane"
TagRoleWorker == "Node"

CommercialTypes == {"DEV1-M", "PRO2-XS"}

\* line 33
commercialTypesWithBlockStorageOnly == <<"PRO", "PLAY", "ENT">>

\* strings.HasPrefix on the commercial types of the model
HasPrefix(ct, prefix) ==
    \/ ct = "DEV1-M" /\ prefix = "DEV"
    \/ ct = "PRO2-XS" /\ prefix = "PRO"
    \/ ct = "kops-controller-cluster1" /\ prefix = "kops-controller"

\* the tags the model builder gives the task: cluster, instance group, role
TagsOf(name, role) == <<name, role>>
TagInstanceGroup(tags) == tags[1]
TagRole(tags) == tags[2]

\* the Instance tasks of one instance group; the model builder gives the
\* control-plane groups the load balancer of the cluster
InstanceTask(role, commercialType, count, userData) ==
    [ Name |-> InstanceFieldValue("Name"),
      Zone |-> InstanceFieldValue("Zone"),
      Role |-> role,
      CommercialType |-> commercialType,
      Image |-> InstanceFieldValue("Image"),
      Count |-> count,
      UserData |-> userData,
      LoadBalancer |-> IF role = TagRoleControlPlane THEN "api-lb" ELSE Nil ]

InstanceTasks ==
    { InstanceTask(role, commercialType, count, userData) :
        role \in {TagRoleWorker, TagRoleControlPlane},
        commercialType \in {Nil} \cup CommercialTypes,
        count \in 0..MaxCount,
        userData \in {"cloud-init", "unreadable"} }

\* what the cloud answers during one run: the call that fails, if any (the
\* n-th call of that name), and the load balancers of the cluster with the
\* number of back-ends each has
NoFailure == [call |-> "none", n |-> 0]
Failure(call, n) == [call |-> call, n |-> n]

\* the calls RenderScw makes for one new server, in order (lines 184-238)
CreateSteps(expected) ==
    <<"CreateServer", "WaitForServer", "SetServerUserData", "ServerAction",
      "WaitForServerStarted">>
    \o (IF ValueOf(expected.Role) = TagRoleControlPlane THEN <<"GetServer">> ELSE <<>>)

ServerFailures ==
    { Failure(c, n) :
        c \in {"CreateServer", "WaitForServer", "SetServerUserData", "ServerAction",
               "WaitForServerStarted", "GetServer", "DeleteServer", "DeleteServerWait"},
        n \in 1..MaxCount }
    \cup { Failure(c, 1) : c \in {"FindServers", "GetClusterServers"} }

BackendFailures ==
    { Failure(c, 1) :
        c \in {"GetClusterLoadBalancers", "ListBackends", "AddBackendServers",
               "RemoveBackendServers", "WaitForLb"} }

ScwEnvs ==
    [ fail : ServerFailures, lbs : {1}, backends : {1} ]
    \cup [ fail : BackendFailures, lbs : {1}, backends : {1} ]
    \cup [ fail : {NoFailure}, lbs : {1}, backends : 0..2 ]
    \cup [ fail : {NoFailure}, lbs : {0}, backends : {0} ]

\* cloud.GetClusterServers: the servers tagged with the instance group
GetClusterServers(servers, igName) ==
    SelectSeq(servers, LAMBDA srv : TagInstanceGroup(srv.Tags) = igName)

\* lines 69-94: the actual task Find builds from the servers found
FoundInstance(s, found) ==
    LET server == found[1] IN
    [ Name |-> TagInstanceGroup(server.Tags),
      Count |-> Len(found),
      Zone |-> InstanceFieldValue("Zone"),
      Role |-> IF TagRole(server.Tags) = TagRoleControlPlane
               THEN TagRoleControlPlane ELSE TagRoleWorker,
      CommercialType |-> server.CommercialType,
      Image |-> s.Image,
      Tags |-> server.Tags,
      UserData |-> s.UserData,
      LoadBalancer |-> Nil ]

\* lines 58-95: Find; e is the expected task as Find leaves it
InstanceFind(s, servers, env) ==
    LET found == GetClusterServers(servers, s.Name) IN
    IF env.fail.call = "FindServers"
    THEN [actual |-> NilInstance, err |-> Errorf("error finding instances"), e |-> s]
    ELSE IF Len(found) = 0
    THEN [actual |-> NilInstance, err |-> NoError, e |-> s]
    ELSE [actual |-> FoundInstance(s, found), err |-> NoError, e |-> s]

\* The delta of the run method: a pointer field is carried when expected sets
\* it and actual is nil or differs; Tags and Count are carried when actual is
\* nil or differs, and are left at their zero value otherwise.
InstanceDiffers(a, e, f) ==
    IF f \in {"Tags", "Count"}
    THEN a = NilInstance \/ a[f] # e[f]
    ELSE e[f] # Nil /\ (a = NilInstance \/ a[f] # e[f])

InstanceFields ==
    {"Name", "Zone", "Role", "CommercialType", "Image", "UserData", "LoadBalancer",
     "Tags", "Count"}

WithTags(e) ==
    [ f \in InstanceFields |-> IF f = "Tags" THEN TagsOf(e.Name, e.Role) ELSE e[f] ]

InstanceBuildChanges(a, e) ==
    [ f \in InstanceFields |->
        IF InstanceDiffers(a, WithTags(e), f) THEN WithTags(e)[f]
        ELSE IF f = "Tags" THEN <<>>
        ELSE IF f = "Count" THEN 0
        ELSE Nil ]

InstanceChanged(a, e) == \E f \in InstanceFields : InstanceDiffers(a, WithTags(e), f)

Call(op, server) == [op |-> op, server |-> server]

\* the calls that change the cloud
ScwMutating ==
    {"CreateServer", "SetServerUserData", "ServerAction", "DeleteServer",
     "AddBackendServers", "RemoveBackendServers"}

\* lines 160-181: the Volumes entry of the create request
\* (the loop sets it in every round whose prefix does not match)
RequestVolumes(commercialType) ==
    \E i \in 1..Len(commercialTypesWithBlockStorageOnly) :
        ~ HasPrefix(commercialType, commercialTypesWithBlockStorageOnly[i])

\* line 158: the number in the name of the i-th new server
UniqueName(i, actual) == i + (IF actual # NilInstance THEN actual.Count ELSE 0)

\* lines 152-239: the loop creating newInstanceCount servers. The failure of
\* the j-th call for the k-th server ends the loop there: the servers before
\* it are complete, and this one exists if CreateServer succeeded.
CreateLoop(actual, expected, newInstanceCount, env) ==
    LET steps == CreateSteps(expected)
        S == Len(steps)
        failing == /\ env.fail.n \in 1..newInstanceCount
                   /\ \E j \in 1..S : steps[j] = env.fail.call
        k == env.fail.n
        j == CHOOSE x \in 1..S : steps[x] = env.fail.call
        nCalls == IF failing THEN (k - 1) * S + j ELSE newInstanceCount * S
        nCreated == IF failing THEN (IF j = 1 THEN k - 1 ELSE k) ELSE newInstanceCount
        server(i) == [ Name |-> UniqueName(i, actual),
                       CommercialType |-> ValueOf(expected.CommercialType),
                       Tags |-> TagsOf(expected.Name, expected.Role) ]
    IN  [ servers |-> [ i \in 1..nCreated |-> server(i - 1) ],
          calls |-> [ m \in 1..nCalls |->
                        LET i == (m - 1) \div S
                            op == steps[((m - 1) % S) + 1]
                        IN  IF op = "CreateServer"
                            THEN [op |-> op, server |-> UniqueName(i, actual),
                                  volumes |-> RequestVolumes(ValueOf(expected.CommercialType))]
                            ELSE Call(op, UniqueName(i, actual)) ],
          ips |-> IF ValueOf(expected.Role) = TagRoleControlPlane /\ ~ failing
                  THEN newInstanceCount ELSE 0,
          err |-> IF failing THEN Errorf(env.fail.call) ELSE NoError ]

\* lines 242-261: the loop deleting the first -newInstanceCount servers of
\* the listing. DeleteServer fails before terminating the server ("DeleteServer")
\* or while waiting for its termination ("DeleteServerWait").
DeleteLoop(servers, actual, nDelete, env) ==
    LET igInstances == GetClusterServers(servers, actual.Name)
        failing == env.fail.call \in {"DeleteServer", "DeleteServerWait"}
                   /\ env.fail.n \in 1..nDelete
        nCalls == IF failing THEN env.fail.n ELSE nDelete
        nDeleted == IF failing /\ env.fail.call = "DeleteServer"
                    THEN env.fail.n - 1 ELSE nCalls
    IN  IF env.fail.call = "GetClusterServers"
        THEN [servers |-> servers, calls |-> <<>>, ips |-> 0,
              err |-> Errorf("error deleting instance")]
        ELSE [ servers |-> SubSeq(igInstances, nDeleted + 1, Len(igInstances)),
               calls |-> [ m \in 1..nCalls |-> Call("DeleteServer", igInstances[m].Name) ],
               ips |-> IF ValueOf(actual.Role) = TagRoleControlPlane /\ ~ failing
                       THEN nDelete ELSE 0,
               err |-> IF failing THEN Errorf("error deleting instance of group")
                       ELSE NoError ]

\* lines 264-319: the back-end of every load balancer of the cluster gets the
\* addresses of the new servers, or loses those of the deleted ones
UpdateBackends(newInstanceCount, env) ==
    LET op == IF newInstanceCount > 0 THEN "AddBackendServers" ELSE "RemoveBackendServers"
    IN  IF env.fail.call = "GetClusterLoadBalancers"
        THEN [calls |-> <<>>, err |-> Errorf("listing load-balancers for instance creation")]
        ELSE IF env.lbs = 0 THEN [calls |-> <<>>, err |-> NoError]
        ELSE IF env.fail.call = "ListBackends"
        THEN [calls |-> <<>>, err |-> Errorf("listing load-balancer's back-ends")]
        ELSE IF env.backends > 1
        THEN [calls |-> <<>>, err |-> Errorf("cannot have multiple back-ends for load-balancer")]
        ELSE IF env.backends < 1
        THEN [calls |-> <<>>, err |-> Errorf("load-balancer should have 1 back-end, got 0")]
        ELSE IF env.fail.call = op
        THEN [calls |-> <<Call(op, 0)>>, err |-> Errorf(op)]
        ELSE IF env.fail.call = "WaitForLb"
        THEN [calls |-> <<Call(op, 0)>>, err |-> Errorf("waiting for load-balancer")]
        ELSE [calls |-> <<Call(op, 0)>>, err |-> NoError]

\* line 143-149
NewInstanceCount_Plus(actual, expected) ==
    IF actual # NilInstance THEN expected.Count - actual.Count + 1 ELSE expected.Count

NewInstanceCount(actual, expected) ==
    IF actual # NilInstance THEN expected.Count - actual.Count ELSE expected.Count

\* lines 264-319 after the loop that ran: the load-balancer phase runs when
\* the loop gathered the address of a control-plane server
AfterLoop(loop, servers, n, env) ==
    IF loop.err = NoError /\ loop.ips > 0
    THEN [ servers |-> servers,
           calls |-> loop.calls \o UpdateBackends(n, env).calls,
           err |-> UpdateBackends(n, env).err ]
    ELSE [ servers |-> servers, calls |-> loop.calls, err |-> loop.err ]

CreateAndAttach(loop, servers, n, env) == AfterLoop(loop, servers \o loop.servers, n, env)

DeleteAndDetach(loop, n, env) == AfterLoop(loop, loop.servers, n, env)

\* lines 151-319: the two loops and the load-balancer phase, for a count
\* difference of n
RenderLoops(servers, actual, expected, n, env) ==
    IF n > 0 THEN CreateAndAttach(CreateLoop(actual, expected, n, env), servers, n, env)
    ELSE IF n < 0 THEN DeleteAndDetach(DeleteLoop(servers, actual, 0 - n, env), n, env)
    ELSE [servers |-> servers, calls |-> <<>>, err |-> NoError]

RenderScw_Recreate(servers, actual, expected, changes, env) ==
    IF expected.UserData = "unreadable"
    THEN [servers |-> servers, calls |-> <<>>, err |-> Errorf("error rendering instances")]
    ELSE RenderLoops(servers, NilInstance, expected, expected.Count, env)

\* lines 132-322: RenderScw; servers are the servers of the cloud before it
RenderScw(servers, actual, expected, changes, env) ==
    IF expected.UserData = "unreadable"
    THEN [servers |-> servers, calls |-> <<>>, err |-> Errorf("error rendering instances")]
    ELSE IF actual # NilInstance /\ expected.Count = actual.Count
    THEN [servers |-> servers, calls |-> <<>>, err |-> NoError]
    ELSE RenderLoops(servers, actual, expected, NewInstanceCount(actual, expected), env)

\* the run of a task: what Find returned, the delta, the calls made, the
\* error returned, the cloud and the expected task after it
RunResult(stage, found, changes, calls, err, cloud, e) ==
    [stage |-> stage, a |-> found.actual, e |-> e, changes |-> changes,
     calls |-> calls, err |-> err, cloud |-> cloud]

InstanceRendered(found, changes, r) ==
    RunResult("render", found, changes, r.calls, r.err, r.servers, found.e)

InstanceCheckedDelta(found, changes, checkErr, servers, env) ==
    IF ~ RunRenders(TRUE, checkErr)
    THEN RunResult("check", found, changes, <<>>, checkErr, servers, found.e)
    ELSE InstanceRendered(found, changes,
                          RenderScw(servers, found.actual, found.e, changes, env))

InstanceDelta(found, changes, servers, env) ==
    IF ~ InstanceChanged(found.actual, found.e)
    THEN RunResult("unchanged", found, changes, <<>>, NoError, servers, found.e)
    ELSE InstanceCheckedDelta(found, changes,
                              InstanceCheckChanges(found.actual, found.e, changes),
                              servers, env)

InstanceFound(found, servers, env) ==
    IF found.err # NoError
    THEN RunResult("find", found, InstanceBuildChanges(NilInstance, found.e), <<>>,
                   found.err, servers, found.e)
    ELSE InstanceDelta(found, InstanceBuildChanges(found.actual, found.e), servers, env)

\* Instance.Run: the delta run method finds the actual task, builds the
\* delta, and when there is one has it checked and then rendered
InstanceRun(e, servers, env) == InstanceFound(InstanceFind(e, servers, env), servers, env)

ScwIdleOut == [stage |-> "idle"]

ScwInit ==
    /\ scwTask \in InstanceTasks
    /\ scwServers = <<>>
    /\ scwOut = ScwIdleOut

ScwIdle ==
    /\ scwTask = [nil |-> TRUE]
    /\ scwServers = <<>>
    /\ scwOut = ScwIdleOut

\* the instance group is edited between two applies: its machine type, its
\* size or its user data; its role stays
ScwEdit ==
    /\ \E f \in {"CommercialType", "Count", "UserData"} :
       \E t \in InstanceTasks :
          /\ t # scwTask
          /\ \A g \in {"Role", "CommercialType", "Count", "UserData"} \ {f} :
                t[g] = scwTask[g]
          /\ scwTask' = t
    /\ scwOut' = ScwIdleOut
    /\ UNCHANGED <<scwServers, nlbCk, scwCk, norm, nlbVars, findCk, lbVars, cfgVars>>

Reverse(s) == [i \in 1..Len(s) |-> s[Len(s) + 1 - i]]

\* ListServers is asked for no order (GetClusterServers names none): the
\* cloud lists the servers oldest first or newest first
ListingOrders(servers) == {servers, Reverse(servers)}

\* one apply of the Instance task
ScwRun ==
    /\ \E env \in ScwEnvs, listed \in ListingOrders(scwServers) :
       \E r \in {InstanceRun(scwTask, listed, env)} :
         /\ scwOut' = [stage |-> r.stage, a |-> r.a, changes |-> r.changes,
                       calls |-> r.calls, err |-> r.err]
         /\ scwServers' = r.cloud
         /\ scwTask' = r.e
    /\ UNCHANGED <<nlbCk, scwCk, norm, nlbVars, findCk, lbVars, cfgVars>>

(***************************************************************************)
(* awstasks.NetworkLoadBalancer: Find, Run and RenderAWS against the cloud *)
(***************************************************************************)
MaxListeners == 2

\* tags are a map, modelled as a set of <<key, value>> pairs with one pair a key
TagKeys(tags) == { t[1] : t \in tags }
TagValue(tags, key) ==
    IF key \in TagKeys(tags) THEN (CHOOSE t \in tags : t[1] = key)[2] ELSE ""

NameTag == <<"Name", "api.cluster1">>
OwnerTag == <<"Owner", "ops">>
CloudFormationTag == <<"aws:cloudformation:stack-name", "cluster1">>

\* lines 274-276: the tags Find leaves out
IsCloudFormationTag(t) == t[1] = CloudFormationTag[1]

\* the cluster subnets without an IPv6 CIDR
NLBClusterIPv4Only == {"b"}

NLBSubnet(i, addr) ==
    [ID |-> SubnetIDs[i], Name |-> SubnetNames[i],
     AllocationID |-> addr.AllocationID, PrivateIPv4Address |-> addr.PrivateIPv4Address]

NoAddress == [AllocationID |-> Nil, PrivateIPv4Address |-> Nil]
ElasticAddress == [AllocationID |-> "eipalloc-1", PrivateIPv4Address |-> Nil]

\* the subnet mappings of the task, and the availability zones of the load
\* balancer in the order the cloud lists them
NLBTaskSubnets ==
    { <<NLBSubnet(1, NoAddress)>>,
      <<NLBSubnet(1, ElasticAddress)>>,
      <<NLBSubnet(1, NoAddress), NLBSubnet(2, NoAddress)>> }

Zone(i, addr) ==
    [ID |-> SubnetIDs[i],
     AllocationID |-> addr.AllocationID, PrivateIPv4Address |-> addr.PrivateIPv4Address]

NLBCloudZones ==
    { <<Zone(1, NoAddress)>>,
      <<Zone(2, NoAddress), Zone(1, NoAddress)>> }

Listener(port, targetGroupName) == [Port |-> port, TargetGroupName |-> targetGroupName]
TargetGroup(name) == [Name |-> name, ARN |-> TargetGroupARN(name)]

\* a name no target group of a task has
UnknownTargetGroupName == "udp-cluster1"

\* the listeners and target groups of the task: one listener, two, two
\* target groups for one listener, a listener for kops-controller, a listener
\* naming a target group the task does not have, or a target group without ARN
NLBTaskListeners ==
    { [Listeners |-> <<Listener(443, TargetGroupNames[1])>>,
       TargetGroups |-> <<TargetGroup(TargetGroupNames[1])>>],
      [Listeners |-> <<Listener(443, TargetGroupNames[2]), Listener(3988, TargetGroupNames[1])>>,
       TargetGroups |-> <<TargetGroup(TargetGroupNames[1]), TargetGroup(TargetGroupNames[2])>>],
      [Listeners |-> <<Listener(443, TargetGroupNames[1])>>,
       TargetGroups |-> <<TargetGroup(TargetGroupNames[1]), TargetGroup(TargetGroupNames[2])>>],
      [Listeners |-> <<Listener(443, TargetGroupNames[1]),
                       Listener(3988, KopsControllerTargetGroupName)>>,
       TargetGroups |-> <<TargetGroup(KopsControllerTargetGroupName),
                          TargetGroup(TargetGroupNames[1])>>],
      [Listeners |-> <<Listener(443, TargetGroupNames[1]),
                       Listener(3988, UnknownTargetGroupName)>>,
       TargetGroups |-> <<TargetGroup(TargetGroupNames[1]),
                          TargetGroup(TargetGroupNames[2])>>],
      [Listeners |-> <<Listener(443, TargetGroupNames[1])>>,
       TargetGroups |-> <<[Name |-> TargetGroupNames[1], ARN |-> Nil]>>] }

NLBCloudListeners ==
    { <<Listener(443, TargetGroupNames[1])>>,
      <<Listener(3988, TargetGroupNames[1]), Listener(443, TargetGroupNames[2])>> }

NLBFields ==
    {"Name", "LoadBalancerName", "DNSName", "HostedZoneId", "SubnetMappings",
     "Listeners", "Scheme", "CrossZoneLoadBalancing", "IpAddressType", "Tags",
     "TargetGroups", "AccessLog"}

\* the normalized tasks the model builder hands over
NLBTasks ==
    { Normalize(
        [ Name |-> NameTag[2], LoadBalancerName |-> lbName,
          DNSName |-> Nil, HostedZoneId |-> Nil,
          SubnetMappings |-> sm, Listeners |-> lt.Listeners,
          Scheme |-> "internal", CrossZoneLoadBalancing |-> crossZone,
          IpAddressType |-> Nil, Tags |-> tags,
          TargetGroups |-> lt.TargetGroups, AccessLog |-> NilAccessLog ],
        NLBClusterIPv4Only) :
        lbName \in {Nil, "api-cluster1"}, sm \in NLBTaskSubnets, lt \in NLBTaskListeners,
        crossZone \in {Nil, "true"}, tags \in {{NameTag}, {NameTag, OwnerTag}} }

NoLB == [nil |-> TRUE]

\* the load balancers the cloud may hold when the task first runs
NLBClouds ==
    {NoLB} \cup
    [ LoadBalancerName : {"api-cluster1"},
      DNSName : {"api-cluster1.elb.amazonaws.com"},
      CanonicalHostedZoneId : {"Z26RNL4JYFTOTI"},
      Scheme : {"internal", "internet-facing"},
      IpAddressType : {"ipv4", "dualstack"},
      Tags : {{NameTag}, {NameTag, OwnerTag}, {NameTag, CloudFormationTag}},
      AvailabilityZones : NLBCloudZones,
      Listeners : NLBCloudListeners,
      CrossZone : {"false"} ]

NLBFailures ==
    { Failure(c, 1) :
        c \in {"none", "FindELBV2ByNameTag", "FindDescribeListeners",
               "findNetworkLoadBalancerByLoadBalancerName", "SetIpAddressType",
               "SetSubnets", "DescribeListeners", "AddELBV2Tags", "RemoveELBV2Tags",
               "ModifyLoadBalancerAttributes", "CreateLoadBalancer",
               "WaitUntilLoadBalancerAvailable", "LoadBalancerGone"} }
    \cup { Failure(c, n) : c \in {"DeleteListener", "CreateListener"}, n \in 1..MaxListeners }

NLBEnvs == [ fail : NLBFailures ]

\* cloud.FindELBV2ByNameTag: the load balancer whose Name tag is name
FindELBV2ByNameTag(cloud, name) ==
    IF cloud # NoLB /\ TagValue(cloud.Tags, "Name") = name THEN cloud ELSE NoLB

\* subnetMappingSlicesEqualIgnoreOrder: the same subnets with the same
\* address settings
subnetMappingSlicesEqualIgnoreOrder(l, r) ==
    /\ SubnetIDsOf(l) = SubnetIDsOf(r)
    /\ \A i \in 1..Len(l), j \in 1..Len(r) :
         l[i].ID = r[j].ID =>
            /\ ValueOf(l[i].PrivateIPv4Address) = ValueOf(r[j].PrivateIPv4Address)
            /\ ValueOf(l[i].AllocationID) = ValueOf(r[j].AllocationID)

\* lines 255-397: the actual task as read from the load balancer
FoundNLB(e, lb) ==
    [ Name |-> e.Name,
      LoadBalancerName |-> lb.LoadBalancerName,
      DNSName |-> lb.DNSName,
      HostedZoneId |-> lb.CanonicalHostedZoneId,
      SubnetMappings |->
          [ i \in 1..Len(lb.AvailabilityZones) |->
              [ID |-> lb.AvailabilityZones[i].ID, Name |-> Nil,
               AllocationID |-> lb.AvailabilityZones[i].AllocationID,
               PrivateIPv4Address |-> lb.AvailabilityZones[i].PrivateIPv4Address] ],
      Listeners |-> lb.Listeners,
      Scheme |-> lb.Scheme,
      CrossZoneLoadBalancing |-> lb.CrossZone,
      IpAddressType |-> lb.IpAddressType,
      Tags |-> { t \in lb.Tags : ~ IsCloudFormationTag(t) },
      TargetGroups |->
          LET tgs == [ i \in 1..Len(lb.Listeners) |->
                         TargetGroup(lb.Listeners[i].TargetGroupName) ]
          IN  StableSort(tgs, OrderTargetGroupsByName(tgs)),
      AccessLog |-> [Enabled |-> "false", S3BucketName |-> Nil] ]

\* a Find that fills in what is unset and keeps the name of the task
CarriedOver_KeepName(e, actual) ==
    [e EXCEPT !.DNSName = IF @ = Nil THEN actual.DNSName ELSE @,
              !.HostedZoneId = IF @ = Nil THEN actual.HostedZoneId ELSE @,
              !.LoadBalancerName = IF @ = Nil THEN actual.LoadBalancerName ELSE @]

\* lines 403-423: what Find fills in the expected task
CarriedOver(e, actual) ==
    LET e1 == [e EXCEPT !.DNSName = IF @ = Nil THEN actual.DNSName ELSE @,
                        !.HostedZoneId = IF @ = Nil THEN actual.HostedZoneId ELSE @,
                        !.LoadBalancerName = IF @ = Nil THEN actual.LoadBalancerName ELSE @]
        e2 == IF actual.Scheme = "internal" /\ actual.IpAddressType = "ipv4"
              THEN [e1 EXCEPT !.IpAddressType = actual.IpAddressType] ELSE e1
    IN  IF ValueOf(e2.LoadBalancerName) # ValueOf(actual.LoadBalancerName)
        THEN [e2 EXCEPT !.LoadBalancerName = actual.LoadBalancerName] ELSE e2

\* lines 399-402
AvoidSpuriousMismatch(actual, e) ==
    IF subnetMappingSlicesEqualIgnoreOrder(actual.SubnetMappings, e.SubnetMappings)
    THEN [actual EXCEPT !.SubnetMappings = e.SubnetMappings]
    ELSE actual

\* lines 403-431
NLBFindResult(e, actual) ==
    [actual |-> Normalize(actual, NLBClusterIPv4Only), err |-> NoError,
     e |-> CarriedOver(e, actual)]

\* lines 255-431: Find once the load balancer is found
NLBFindPresent(e, lb, env) ==
    IF env.fail.call = "FindDescribeListeners"
    THEN [actual |-> NilNLB, err |-> Errorf("error querying for NLB listeners"), e |-> e]
    ELSE NLBFindResult(e, AvoidSpuriousMismatch(FoundNLB(e, lb), e))

NLBFind_AbsentIsError(e, cloud, env) ==
    LET lb == FindELBV2ByNameTag(cloud, TagValue(e.Tags, "Name")) IN
    IF env.fail.call = "FindELBV2ByNameTag"
    THEN [actual |-> NilNLB, err |-> Errorf("error listing load balancers"), e |-> e]
    ELSE IF lb = NoLB
    THEN [actual |-> NilNLB, err |-> Errorf("load balancer not found"), e |-> e]
    ELSE NLBFindPresent(e, lb, env)

\* lines 244-432: Find; e is the expected task as Find leaves it
NLBFind(e, cloud, env) ==
    LET lb == FindELBV2ByNameTag(cloud, TagValue(e.Tags, "Name")) IN
    IF env.fail.call = "FindELBV2ByNameTag"
    THEN [actual |-> NilNLB, err |-> Errorf("error listing load balancers"), e |-> e]
    ELSE IF lb = NoLB
    THEN [actual |-> NilNLB, err |-> NoError, e |-> e]
    ELSE NLBFindPresent(e, lb, env)

\* The delta of the run method: a field is carried when actual is nil or
\* differs from expected, unless it is a pointer expected leaves nil.
NLBPointerFields ==
    {"Name", "LoadBalancerName", "DNSName", "HostedZoneId", "Scheme",
     "CrossZoneLoadBalancing", "IpAddressType", "AccessLog"}

NLBFieldIsNil(e, f) ==
    IF f = "AccessLog" THEN e[f] = NilAccessLog
    ELSE f \in NLBPointerFields /\ e[f] = Nil

NLBDiffers(a, e, f) ==
    /\ ~ NLBFieldIsNil(e, f)
    /\ a = NilNLB \/ a[f] # e[f]

\* set: the fields changes carries; the lists render and check read
NLBBuildChanges(a, e) ==
    LET set == { f \in NLBFields : NLBDiffers(a, e, f) } IN
    [ set |-> set,
      SubnetMappings |-> IF "SubnetMappings" \in set THEN e.SubnetMappings ELSE <<>>,
      Listeners |-> IF "Listeners" \in set THEN e.Listeners ELSE <<>> ]

Panic(m) == [kind |-> "panic", msg |-> m]

NLBCall(op, arg) == [op |-> op, arg |-> arg]

\* the calls that change the cloud
NLBMutating ==
    {"CreateLoadBalancer", "SetIpAddressType", "SetSubnets", "DeleteListener",
     "CreateListener", "AddTags", "RemoveTags", "ModifyLoadBalancerAttributes"}

\* a render in progress: the cloud, the calls made, the error that ended it
\* and the expected task
Issue(st, op, arg) == [st EXCEPT !.calls = Append(@, NLBCall(op, arg))]
Fail(st, m) == [st EXCEPT !.err = Errorf(m)]

\* lines 91-100: the ARN of the target group the listener forwards to, "" if
\* the task has no such target group
ListenerTargetGroupARN(listener, targetGroups) ==
    LET match == { i \in 1..Len(targetGroups) :
                     ValueOf(targetGroups[i].Name) = listener.TargetGroupName }
    IN  IF match = {} THEN ""
        ELSE ValueOf(targetGroups[CHOOSE i \in match : \A j \in match : j <= i].ARN)

\* the ARN the cloud gives a load balancer, one for each name
LoadBalancerArn(lb) == "arn:lb:" \o lb.LoadBalancerName

\* lines 102-125: the CreateListenerInput mapToAWS builds for a listener whose
\* target group is found
mapToAWS(listener, targetGroups, loadBalancerArn) ==
    [TargetGroupArn |-> ListenerTargetGroupARN(listener, targetGroups),
     LoadBalancerArn |-> loadBalancerArn,
     Port |-> listener.Port]

\* lines 618-629 and 712-724: mapToAWS and CreateListener for each listener
CreateListeners(st, listeners, targetGroups, env) ==
    LET unmapped == { i \in 1..Len(listeners) :
                        ListenerTargetGroupARN(listeners[i], targetGroups) = "" }
        refused == IF env.fail.call = "CreateListener"
                   THEN {env.fail.n} \cap (1..Len(listeners)) ELSE {}
        stops == unmapped \cup refused
        stop == IF stops = {} THEN Len(listeners) + 1 ELSE Min(stops)
        nCalls == IF stop \in refused \ unmapped THEN stop ELSE stop - 1
    IN  IF st.err # NoError THEN st
        ELSE [st EXCEPT
                !.cloud.Listeners = @ \o SubSeq(listeners, 1, stop - 1),
                !.calls = @ \o [ i \in 1..nCalls |->
                              NLBCall("CreateListener",
                                      mapToAWS(listeners[i], targetGroups,
                                               LoadBalancerArn(st.cloud))) ],
                !.err = IF stop \in unmapped
                        THEN Errorf("target group not found for NLB listener")
                        ELSE IF stop \in refused
                        THEN Errorf("error creating NLB listener")
                        ELSE NoError]

\* modifyLoadBalancerAttributes: changes the attributes when changes carries
\* CrossZoneLoadBalancing or AccessLog
ModifyLoadBalancerAttributes(st, e, changes, env) ==
    IF st.err # NoError \/ changes.set \cap {"CrossZoneLoadBalancing", "AccessLog"} = {}
    THEN st
    ELSE IF env.fail.call = "ModifyLoadBalancerAttributes"
    THEN Fail(Issue(st, "ModifyLoadBalancerAttributes", e.CrossZoneLoadBalancing),
              "error modifying NLB attributes")
    ELSE [Issue(st, "ModifyLoadBalancerAttributes", e.CrossZoneLoadBalancing)
            EXCEPT !.cloud.CrossZone = IF e.CrossZoneLoadBalancing = Nil THEN @
                                       ELSE e.CrossZoneLoadBalancing]

IsKopsControllerTargetGroup_Never(name) == FALSE

\* line 604: strings.HasPrefix(fi.ValueOf(tg.Name), "kops-controller")
IsKopsControllerTargetGroup(name) == HasPrefix(name, "kops-controller")

\* lines 601-615: the wait for the new load balancer, made when the task has
\* a target group of kops-controller
WaitUntilLoadBalancerAvailable(st, e, env) ==
    IF ~ \E i \in 1..Len(e.TargetGroups) :
            IsKopsControllerTargetGroup(ValueOf(e.TargetGroups[i].Name))
    THEN st
    ELSE IF env.fail.call = "WaitUntilLoadBalancerAvailable"
    THEN Fail(Issue(st, "WaitUntilLoadBalancerAvailable", e.LoadBalancerName),
              "error waiting for NLB")
    ELSE Issue(st, "WaitUntilLoadBalancerAvailable", e.LoadBalancerName)

ZonesOf(subnetMappings) ==
    [ i \in 1..Len(subnetMappings) |->
        [ID |-> subnetMappings[i].ID,
         AllocationID |-> subnetMappings[i].AllocationID,
         PrivateIPv4Address |-> subnetMappings[i].PrivateIPv4Address] ]

\* lines 555-630: creation
RenderCreate(st, e, env) ==
    IF e.LoadBalancerName = Nil
    THEN [st EXCEPT !.err = RequiredField("LoadBalancerName")]
    ELSE IF \E i \in 1..Len(e.TargetGroups) : e.TargetGroups[i].ARN = Nil
    THEN Fail(st, "missing required target group ARN for NLB creation")
    ELSE IF env.fail.call = "CreateLoadBalancer"
    THEN Fail(Issue(st, "CreateLoadBalancer", e.LoadBalancerName), "error creating NLB")
    ELSE LET lb == [ LoadBalancerName |-> e.LoadBalancerName,
                     DNSName |-> "api-cluster1.elb.amazonaws.com",
                     CanonicalHostedZoneId |-> "Z26RNL4JYFTOTI",
                     Scheme |-> e.Scheme,
                     IpAddressType |-> e.IpAddressType,
                     Tags |-> e.Tags,
                     AvailabilityZones |-> ZonesOf(e.SubnetMappings),
                     Listeners |-> <<>>,
                     CrossZone |-> "false" ]
             created == [Issue(st, "CreateLoadBalancer", e.LoadBalancerName)
                           EXCEPT !.cloud = lb,
                                  !.e.DNSName = lb.DNSName,
                                  !.e.HostedZoneId = lb.CanonicalHostedZoneId]
         IN  CreateListeners(WaitUntilLoadBalancerAvailable(created, e, env),
                             e.Listeners, e.TargetGroups, env)

\* lines 641-649
SetIpAddressType(st, e, changes, env) ==
    IF st.err # NoError \/ "IpAddressType" \notin changes.set THEN st
    ELSE IF env.fail.call = "SetIpAddressType"
    THEN Fail(Issue(st, "SetIpAddressType", e.IpAddressType),
              "error setting the IP addresses type")
    ELSE [Issue(st, "SetIpAddressType", e.IpAddressType)
            EXCEPT !.cloud.IpAddressType = e.IpAddressType]

\* lines 652-661: actualSubnets, the map from the ID of an actual subnet that
\* has an address to that address
ActualSubnetsHas(a, id) ==
    \E i \in 1..Len(a.SubnetMappings) :
        /\ a.SubnetMappings[i].ID = id
        /\ a.SubnetMappings[i].AllocationID # Nil \/ a.SubnetMappings[i].PrivateIPv4Address # Nil

ActualSubnetsAt(a, id) ==
    LET s == a.SubnetMappings[CHOOSE i \in 1..Len(a.SubnetMappings) :
                                 a.SubnetMappings[i].ID = id]
    IN  IF s.PrivateIPv4Address # Nil THEN s.PrivateIPv4Address ELSE s.AllocationID

\* lines 663-675
HasSubnetChanges(a, e) ==
    \E i \in 1..Len(e.SubnetMappings) :
        LET s == e.SubnetMappings[i] IN
        \/ ~ ActualSubnetsHas(a, s.ID)
        \/ /\ ValueOf(s.PrivateIPv4Address) # ValueOf(ActualSubnetsAt(a, s.ID))
           /\ ValueOf(s.AllocationID) # ValueOf(ActualSubnetsAt(a, s.ID))

\* lines 651-687
SetSubnets(st, a, e, changes, env) ==
    IF \/ st.err # NoError
       \/ "SubnetMappings" \notin changes.set
       \/ ~ HasSubnetChanges(a, e)
    THEN st
    ELSE IF env.fail.call = "SetSubnets"
    THEN Fail(Issue(st, "SetSubnets", e.SubnetMappings),
              "error attaching load balancer to new subnets")
    ELSE [Issue(st, "SetSubnets", e.SubnetMappings)
            EXCEPT !.cloud.AvailabilityZones = ZonesOf(e.SubnetMappings)]

\* a replacement that leaves the listeners of the load balancer in place
ReplaceListeners_KeepOld(st, e, changes, env) ==
    IF st.err # NoError \/ "Listeners" \notin changes.set THEN st
    ELSE CreateListeners(st, changes.Listeners, e.TargetGroups, env)

\* lines 689-725: every listener of the load balancer is deleted, then the
\* listeners of changes are created
ReplaceListeners(st, e, changes, env) ==
    LET live == st.cloud.Listeners
        refused == IF env.fail.call = "DeleteListener"
                   THEN {env.fail.n} \cap (1..Len(live)) ELSE {}
        nCalls == IF refused = {} THEN Len(live) ELSE env.fail.n
        deleted == [st EXCEPT
                      !.cloud.Listeners = IF refused = {} THEN <<>>
                                          ELSE SubSeq(live, env.fail.n, Len(live)),
                      !.calls = @ \o [ i \in 1..nCalls |-> NLBCall("DeleteListener", live[i]) ],
                      !.err = IF refused = {} THEN NoError
                              ELSE Errorf("error deleting load balancer listener")]
    IN  IF st.err # NoError \/ "Listeners" \notin changes.set THEN st
        ELSE IF env.fail.call = "DescribeListeners"
        THEN Fail(st, "error querying for NLB listeners")
        ELSE CreateListeners(deleted, changes.Listeners, e.TargetGroups, env)

\* t.AddELBV2Tags(arn, e.Tags): adds the tags of the task the load balancer
\* lacks or has with another value
AddELBV2Tags(st, tags, env) ==
    LET missing == tags \ st.cloud.Tags IN
    IF st.err # NoError THEN st
    ELSE IF env.fail.call = "AddELBV2Tags" THEN Fail(st, "error adding tags")
    ELSE IF missing = {} THEN st
    ELSE [Issue(st, "AddTags", missing)
            EXCEPT !.cloud.Tags = { t \in @ : t[1] \notin TagKeys(missing) } \cup missing]

\* t.RemoveELBV2Tags(arn, e.Tags): removes the tags of the load balancer whose
\* key the task does not have
RemoveELBV2Tags(st, tags, env) ==
    LET extra == { t \in st.cloud.Tags : t[1] \notin TagKeys(tags) } IN
    IF st.err # NoError THEN st
    ELSE IF env.fail.call = "RemoveELBV2Tags" THEN Fail(st, "error removing tags")
    ELSE IF extra = {} THEN st
    ELSE [Issue(st, "RemoveTags", extra) EXCEPT !.cloud.Tags = @ \ extra]

\* lines 631-733: update. The load balancer is looked up by the name of
\* actual; the lookup returning nil, nil is not checked before lb is read.
RenderUpdate(st, a, e, changes, env) ==
    IF env.fail.call = "findNetworkLoadBalancerByLoadBalancerName"
    THEN Fail(st, "error getting load balancer by name")
    ELSE IF env.fail.call = "LoadBalancerGone"
    THEN [st EXCEPT !.cloud = NoLB, !.err = Panic("nil pointer dereference")]
    ELSE LET typed == SetIpAddressType(st, e, changes, env)
             attached == SetSubnets(typed, a, e, changes, env)
             listening == ReplaceListeners(attached, e, changes, env)
             tagged == AddELBV2Tags(listening, e.Tags, env)
         IN  RemoveELBV2Tags(tagged, e.Tags, env)

\* lines 547-740: RenderAWS
RenderAWS(cloud, a, e, changes, env) ==
    LET st == [cloud |-> cloud, calls |-> <<>>, err |-> NoError, e |-> e] IN
    IF Len(e.Listeners) # Len(e.TargetGroups)
    THEN Fail(st, "nlb listeners and target groups do not match")
    ELSE LET rendered == IF a = NilNLB THEN RenderCreate(st, e, env)
                         ELSE RenderUpdate(st, a, e, changes, env)
         IN  ModifyLoadBalancerAttributes(rendered, e, changes, env)

NLBRendered(found, changes, r) ==
    RunResult("render", found, changes, r.calls, r.err, r.cloud, r.e)

NLBCheckedDelta(found, changes, checkErr, cloud, env) ==
    IF ~ RunRenders(TRUE, checkErr)
    THEN RunResult("check", found, changes, <<>>, checkErr, cloud, found.e)
    ELSE NLBRendered(found, changes, RenderAWS(cloud, found.actual, found.e, changes, env))

NLBDelta(found, changes, cloud, env) ==
    IF changes.set = {}
    THEN RunResult("unchanged", found, changes, <<>>, NoError, cloud, found.e)
    ELSE NLBCheckedDelta(found, changes,
                         NLBCheckChanges(found.actual, found.e, changes), cloud, env)

NLBFound(found, cloud, env) ==
    IF found.err # NoError
    THEN RunResult("find", found, NLBBuildChanges(NilNLB, found.e), <<>>, found.err,
                   cloud, found.e)
    ELSE NLBDelta(found, NLBBuildChanges(found.actual, found.e), cloud, env)

\* NetworkLoadBalancer.Run: the delta run method finds the actual task, builds
\* the delta, and when there is one has it checked and then rendered
NLBRunTask(e, cloud, env) == NLBFound(NLBFind(e, cloud, env), cloud, env)

NLBIdleOut == [stage |-> "idle"]

NLBInit ==
    /\ nlbTask \in NLBTasks
    /\ nlbCloud \in NLBClouds
    /\ nlbOut = NLBIdleOut

NLBIdle ==
    /\ nlbTask = [nil |-> TRUE]
    /\ nlbCloud = NoLB
    /\ nlbOut = NLBIdleOut

\* one apply of the NetworkLoadBalancer task
NLBRun ==
    /\ \E env \in NLBEnvs :
       \E r \in {NLBRunTask(nlbTask, nlbCloud, env)} :
         /\ nlbOut' = [stage |-> r.stage, a |-> r.a, changes |-> r.changes,
                       calls |-> r.calls, err |-> r.err]
         /\ nlbCloud' = r.cloud
         /\ nlbTask' = r.e
    /\ UNCHANGED <<nlbCk, scwCk, norm, scwVars, findCk, lbVars, cfgVars>>

(***************************************************************************)
(* One call of Find, of either task                                        *)
(***************************************************************************)
\* a load balancer of another cluster
OtherNameTag == <<"Name", "api.cluster2">>
NLBOtherClouds == { [lb EXCEPT !.Tags = {OtherNameTag}] : lb \in NLBClouds \ {NoLB} }

\* the servers of the cluster: of the instance group of the task or of another
ClusterServers ==
    { [Name |-> 0, CommercialType |-> "DEV1-M", Tags |-> TagsOf(ig, role)] :
        ig \in {InstanceFieldValue("Name"), "bastions-fr-par-1"},
        role \in {TagRoleWorker, TagRoleControlPlane} }

ClusterServerLists == UNION { [1..n -> ClusterServers] : n \in 0..MaxCount }

FindCall(which, task, cloud, env) ==
    [pc |-> "call", which |-> which, task |-> task, cloud |-> cloud, env |-> env,
     actual |-> [nil |-> TRUE], err |-> NoError, e |-> task]

\* tasks an earlier apply has left its values in: the DNS name and hosted zone
\* of the load balancer it found, under the name the cluster had then
NLBAppliedTasks ==
    { [t EXCEPT !.LoadBalancerName = "api-old",
                !.DNSName = "api-old.elb.amazonaws.com",
                !.HostedZoneId = "ZLPOAIWEXAMPLE"] :
        t \in { x \in NLBTasks : x.LoadBalancerName # Nil } }

FindInit ==
    \/ \E task \in NLBTasks \cup NLBAppliedTasks, cloud \in NLBClouds \cup NLBOtherClouds,
          call \in {"none", "FindELBV2ByNameTag", "FindDescribeListeners"} :
         findCk = FindCall("nlb", task, cloud, [fail |-> Failure(call, 1)])
    \/ \E task \in InstanceTasks, servers \in ClusterServerLists,
          call \in {"none", "FindServers"} :
         findCk = FindCall("scw", task, servers,
                           [fail |-> Failure(call, 1), lbs |-> 1, backends |-> 1])

FindIdle == findCk = [pc |-> "idle"]

FindReturns(r) ==
    /\ findCk' = [findCk EXCEPT !.pc = "done", !.actual = r.actual, !.err = r.err,
                                !.e = r.e]
    /\ UNCHANGED <<nlbCk, scwCk, norm, scwVars, nlbVars, lbVars, cfgVars>>

DoNLBFind ==
    /\ findCk.pc = "call"
    /\ findCk.which = "nlb"
    /\ FindReturns(NLBFind(findCk.task, findCk.cloud, findCk.env))

DoScwFind ==
    /\ findCk.pc = "call"
    /\ findCk.which = "scw"
    /\ FindReturns(InstanceFind(findCk.task, findCk.cloud, findCk.env))


(***************************************************************************)
(* findNetworkLoadBalancerByLoadBalancerName                               *)
(* A load balancer of a response is modelled by its LoadBalancerName.  An  *)
(* error carries its dynamic type in kind: "awserr" implements             *)
(* awserr.Error and msg is its Code(); "error" is the plain error made by  *)
(* fmt.Errorf with %v, which implements error only.                        *)
(***************************************************************************)
MaxPages == 2
MaxPageLen == 2

LoadBalancerNames == {"api-cluster1", "api-other"}
AWSErrorCodes == {"LoadBalancerNotFound", "Throttling"}

AWSError(code) == [kind |-> "awserr", msg |-> code]

\* err.(awserr.Error): the type assertion succeeds on an AWS error only
IsAWSError(err) == err.kind = "awserr"

SeqsUpTo(S, n) == UNION {[1..k -> S] : k \in 0..n}

\* What ELBV2().DescribeLoadBalancersPages delivers: the pages handed to the
\* callback and the error it returns
DescribeResponses ==
    {[pages |-> ps, err |-> NoError] : ps \in SeqsUpTo(SeqsUpTo(LoadBalancerNames, MaxPageLen), MaxPages)}
    \cup {[pages |-> <<>>, err |-> AWSError(c)] : c \in AWSErrorCodes}

RECURSIVE FilterPages(_, _)
FilterPages(pages, name) ==
    IF pages = <<>> THEN <<>>
    ELSE SelectSeq(Head(pages), LAMBDA lb : lb = name) \o FilterPages(Tail(pages), name)

\* describeNetworkLoadBalancers with the filter "LoadBalancerName == name"
describeNetworkLoadBalancers(response, name) ==
    IF response.err.kind # "nil"
    THEN [found |-> <<>>, err |-> Errorf("error listing NLBs")]
    ELSE [found |-> FilterPages(response.pages, name), err |-> NoError]

ByNameResult(r) ==
    IF r.err.kind # "nil"
    THEN IF IsAWSError(r.err) /\ r.err.msg = "LoadBalancerNotFound"
         THEN [lb |-> Nil, err |-> NoError]
         ELSE [lb |-> Nil, err |-> Errorf("error listing NLBs")]
    ELSE IF Len(r.found) = 0 THEN [lb |-> Nil, err |-> NoError]
    ELSE IF Len(r.found) # 1 THEN [lb |-> Nil, err |-> Errorf("Found multiple NLBs")]
    ELSE [lb |-> r.found[1], err |-> NoError]

findNetworkLoadBalancerByLoadBalancerName(response, loadBalancerName) ==
    ByNameResult(describeNetworkLoadBalancers(response, loadBalancerName))

ByNameInit ==
    \E response \in DescribeResponses, name \in LoadBalancerNames :
        byName = [pc |-> "call", response |-> response, name |-> name,
                  lb |-> Nil, err |-> NoError]

DoFindByName ==
    /\ byName.pc = "call"
    /\ \E r \in {findNetworkLoadBalancerByLoadBalancerName(byName.response, byName.name)} :
         byName' = [byName EXCEPT !.pc = "done", !.lb = r.lb, !.err = r.err]
    /\ UNCHANGED <<coreVars, exec, delCk, osCk, cfgVars>>


(***************************************************************************)
(* The executor: one apply pass over a task graph                          *)
(* Graph construction resolves the references of the registered tasks and  *)
(* rejects a cyclic graph; the apply walks the graph with a bounded worker *)
(* pool.  A task is Pending, then Diffing, Validating, Rendering and Done, *)
(* or Failed; a task whose dependency failed is Blocked.                   *)
(***************************************************************************)
MaxWorkers == 2

\* The tasks APILoadBalancerModelBuilder.Build hands to AddTask, each with the
\* tasks its fields point to
ScwLBTasks ==
    << [name |-> "LoadBalancer", refs |-> {}],
       [name |-> "LBBackend", refs |-> {"LoadBalancer"}],
       [name |-> "LBFrontend", refs |-> {"LoadBalancer", "LBBackend"}] >>

GenericTaskNames == {"A", "B", "C"}

\* every graph of references between three tasks, cyclic ones included
GenericGraphs ==
    [GenericTaskNames -> SUBSET GenericTaskNames] \ 
        {g \in [GenericTaskNames -> SUBSET GenericTaskNames] : \E t \in GenericTaskNames : t \in g[t]}

Range(f) == {f[i] : i \in DOMAIN f}
RegistrationOrders(S) == {p \in [1..Cardinality(S) -> S] : Range(p) = S}

\* GetDependencies of every task: the tasks its fields point to
TaskGraphOf(tasks) ==
    [n \in {tasks[i].name : i \in DOMAIN tasks} |->
        tasks[CHOOSE i \in DOMAIN tasks : tasks[i].name = n].refs]

RECURSIVE Closure(_, _, _)
Closure(deps, S, n) ==
    IF n = 0 THEN S ELSE Closure(deps, S \cup UNION {deps[x] : x \in S}, n - 1)

\* the transitive dependencies of t
Reach(deps, t) == Closure(deps, deps[t], Cardinality(DOMAIN deps))

CycleTasks_Unchecked(deps) == {}

\* the tasks that lie on a dependency cycle
CycleTasks(deps) == {t \in DOMAIN deps : t \in Reach(deps, t)}

ExecStart(order, deps) ==
    [pc |-> "build", order |-> order, deps |-> deps,
     status |-> [t \in DOMAIN deps |-> "Pending"],
     attempted |-> {}, failed |-> {}, blocked |-> {}, cycle |-> {}]

ExecInit ==
    \/ \E order \in RegistrationOrders({"LoadBalancer", "LBBackend", "LBFrontend"}) :
         exec = ExecStart(order, TaskGraphOf(ScwLBTasks))
    \/ \E g \in GenericGraphs : exec = ExecStart(<<"A", "B", "C">>, g)

ExecTasks == DOMAIN exec.deps
Running == {t \in ExecTasks : exec.status[t] \in {"Diffing", "Validating", "Rendering"}}
Terminal == {"Done", "Failed", "Blocked"}

\* Graph construction: a cyclic graph is a fatal error reporting the cycle
BuildGraph ==
    /\ exec.pc = "build"
    /\ \E cycle \in {CycleTasks(exec.deps)} :
         exec' = IF cycle # {}
                 THEN [exec EXCEPT !.pc = "fatal", !.cycle = cycle]
                 ELSE [exec EXCEPT !.pc = "apply"]
    /\ UNCHANGED <<coreVars, byName, delCk, osCk, cfgVars>>

\* a task is ready when every task it depends on is Done
Ready_ByRegistration(t) ==
    \A i \in DOMAIN exec.order :
        (\E j \in DOMAIN exec.order : i < j /\ exec.order[j] = t)
            => exec.status[exec.order[i]] # "Pending"

Ready_IgnoringFailure(t) == \A d \in exec.deps[t] : exec.status[d] \in {"Done", "Failed"}

Ready(t) == \A d \in exec.deps[t] : exec.status[d] = "Done"

\* a worker takes a ready task
StartTask(t) ==
    /\ exec.pc = "apply"
    /\ exec.status[t] = "Pending"
    /\ Ready(t)
    /\ Cardinality(Running) < MaxWorkers
    /\ exec' = [exec EXCEPT !.status[t] = "Diffing", !.attempted = @ \cup {t}]
    /\ UNCHANGED <<coreVars, byName, delCk, osCk, cfgVars>>

NextStage(stage) ==
    CASE stage = "Diffing" -> "Validating"
      [] stage = "Validating" -> "Rendering"
      [] stage = "Rendering" -> "Done"

\* Find, CheckChanges or Render of the task succeeds
StepTask(t) ==
    /\ exec.pc = "apply"
    /\ t \in Running
    /\ exec' = [exec EXCEPT !.status[t] = NextStage(@)]
    /\ UNCHANGED <<coreVars, byName, delCk, osCk, cfgVars>>

\* Find, CheckChanges or Render of the task returns an error
FailTask(t) ==
    /\ exec.pc = "apply"
    /\ t \in Running
    /\ exec' = [exec EXCEPT !.status[t] = "Failed", !.failed = @ \cup {t}]
    /\ UNCHANGED <<coreVars, byName, delCk, osCk, cfgVars>>

\* a task with a failed or blocked dependency is blocked, not attempted
BlockTask(t) ==
    /\ exec.pc = "apply"
    /\ exec.status[t] = "Pending"
    /\ \E d \in exec.deps[t] : exec.status[d] \in {"Failed", "Blocked"}
    /\ exec' = [exec EXCEPT !.status[t] = "Blocked", !.blocked = @ \cup {t}]
    /\ UNCHANGED <<coreVars, byName, delCk, osCk, cfgVars>>

\* the apply ends when no task can run any more, with all failures together
Finish ==
    /\ exec.pc = "apply"
    /\ \A t \in ExecTasks : exec.status[t] \in Terminal
    /\ exec' = [exec EXCEPT !.pc = "done"]
    /\ UNCHANGED <<coreVars, byName, delCk, osCk, cfgVars>>


(***************************************************************************)
(* NetworkLoadBalancer.FindDeletions                                       *)
(* The cloud holds the network load balancer of the task or not, and at    *)
(* most one classic load balancer, with its Name tag and the number of     *)
(* instances registered with it.                                           *)
(***************************************************************************)
MaxInstances == 2

CLBNames == {"api-clb", "other-clb"}
NoCLB == [nil |-> TRUE]
ClassicLoadBalancer(nameTag, instances) ==
    [nil |-> FALSE, NameTag |-> nameTag, LoadBalancerName |-> nameTag, Instances |-> instances]

DeletionClouds ==
    [nlb : BOOLEAN,
     clb : {NoCLB} \cup {ClassicLoadBalancer(n, i) : n \in CLBNames, i \in 0..MaxInstances},
     fail : BOOLEAN]

\* cloud.FindELBByNameTag: the classic load balancer carrying the Name tag
FindELBByNameTag(cloud, nameTag) ==
    IF cloud.fail THEN [lb |-> NoCLB, err |-> Errorf("FindELBByNameTag")]
    ELSE IF ~cloud.clb.nil /\ cloud.clb.NameTag = nameTag THEN [lb |-> cloud.clb, err |-> NoError]
    ELSE [lb |-> NoCLB, err |-> NoError]

deleteClassicLoadBalancer(lb) == [LoadBalancerName |-> lb.LoadBalancerName]

FoundDeletions(found) ==
    IF found.err.kind # "nil" THEN [deletions |-> <<>>, err |-> found.err]
    ELSE IF found.lb.nil THEN [deletions |-> <<>>, err |-> NoError]
    ELSE [deletions |-> <<deleteClassicLoadBalancer(found.lb)>>, err |-> NoError]

FindDeletions(e, cloud) ==
    IF e.CLBName = Nil THEN [deletions |-> <<>>, err |-> NoError]
    ELSE FoundDeletions(FindELBByNameTag(cloud, ValueOf(e.CLBName)))

DelInit ==
    \E clbName \in {Nil, "api-clb"}, cloud \in DeletionClouds :
        delCk = [pc |-> "call", e |-> [CLBName |-> clbName], cloud |-> cloud,
                 deletions |-> <<>>, err |-> NoError]

DoFindDeletions ==
    /\ delCk.pc = "call"
    /\ \E r \in {FindDeletions(delCk.e, delCk.cloud)} :
         delCk' = [delCk EXCEPT !.pc = "done", !.deletions = r.deletions, !.err = r.err]
    /\ UNCHANGED <<coreVars, byName, exec, osCk, cfgVars>>


(***************************************************************************)
(* OpenStack: buildClients, the choice of the load balancer client         *)
(* A nil pointer to a struct is the record [nil |-> TRUE]; *bool fields    *)
(* hold "true", "false" or Nil.  A service client is modelled by the type  *)
(* of the endpoint it talks to.                                            *)
(***************************************************************************)
MaxNetworks == 2

NilStruct == [nil |-> TRUE]

OsRouters ==
    {NilStruct} \cup
    [nil : {FALSE}, ExternalNetwork : {"ext-net"}, ExternalSubnet : {Nil, "ext-subnet"}]

OsLoadbalancers ==
    {NilStruct} \cup
    [nil : {FALSE}, FloatingNetworkID : {Nil, "net-0"}, FloatingNetwork : {Nil, "ext-net"},
     UseOctavia : {Nil, "true", "false"}, FloatingSubnet : {Nil, "lb-subnet"}]

\* *kops.OpenstackSpec
OpenstackSpecs ==
    {NilStruct} \cup [nil : {FALSE}, Router : OsRouters, Loadbalancer : OsLoadbalancers]

NetworkID(i) == "net-" \o ToString(i)

\* the service catalog of the provider, and what ListNetworks answers for
\* the name of the floating network
OsClientEnvs ==
    [endpoints : {{"network"}, {"network", "load-balancer"}, {"load-balancer"}},
     listFails : BOOLEAN,
     networks : {[i \in 1..k |-> NetworkID(i)] : k \in 0..MaxNetworks}]

\* openstack.NewNetworkV2, openstack.NewLoadBalancerV2: the client of the
\* endpoint of the service type, an error when the catalog has none
NewServiceClient(env, type) ==
    IF type \in env.endpoints THEN [client |-> type, err |-> NoError]
    ELSE [client |-> Nil, err |-> Errorf("no endpoint")]

\* lines 1340-1349: the cloud before the load balancer client is built
NewOpenstackCloudStruct ==
    [useOctavia |-> FALSE, lbClient |-> Nil, floatingEnabled |-> FALSE,
     extNetworkName |-> Nil, extSubnetName |-> Nil, floatingSubnet |-> Nil]

setFloatingIPSupport(c, spec) ==
    IF spec.nil \/ spec.Router.nil
    THEN [c EXCEPT !.floatingEnabled = FALSE]
    ELSE [c EXCEPT !.floatingEnabled = TRUE,
                   !.extNetworkName = spec.Router.ExternalNetwork,
                   !.extSubnetName = IF spec.Router.ExternalSubnet # Nil
                                     THEN spec.Router.ExternalSubnet ELSE @]

OsBuilt(c, spec, err) == [c |-> c, spec |-> spec, err |-> err]

\* lines 1404-1430: the client of the chosen service
SetLBClient(c, spec, octavia, made) ==
    IF made.err.kind # "nil"
    THEN OsBuilt([c EXCEPT !.useOctavia = octavia], spec, Errorf("error building lb client"))
    ELSE OsBuilt([c EXCEPT !.useOctavia = octavia, !.lbClient = made.client], spec, NoError)

OctaviaIsAlwaysOff(lb) == FALSE

\* lines 1397-1399
OctaviaWanted(lb) == lb.UseOctavia # Nil /\ lb.UseOctavia = "true"

\* lines 1385-1403: with a router
WithRouter(c, spec, env) ==
    LET lb == spec.Loadbalancer
        derive == lb.FloatingNetworkID = Nil /\ lb.FloatingNetwork # Nil
        subnet == [c EXCEPT !.floatingSubnet =
                      IF lb.FloatingSubnet # Nil THEN lb.FloatingSubnet ELSE @]
    IN  IF derive /\ (env.listFails \/ Len(env.networks) # 1)
        THEN OsBuilt(c, spec, Errorf("could not establish floating network id"))
        ELSE IF derive
        THEN [c |-> subnet,
              spec |-> [spec EXCEPT !.Loadbalancer.FloatingNetworkID = env.networks[1]],
              octavia |-> OctaviaWanted(lb), err |-> NoError]
        ELSE [c |-> subnet, spec |-> spec, octavia |-> OctaviaWanted(lb), err |-> NoError]

ChooseLBClient(r, env) ==
    IF r.err.kind # "nil" THEN OsBuilt(r.c, r.spec, r.err)
    ELSE SetLBClient(r.c, r.spec, r.octavia,
                     NewServiceClient(env, IF r.octavia THEN "load-balancer" ELSE "network"))

buildLoadBalancerClient(c, spec, env) ==
    IF spec.nil \/ spec.Loadbalancer.nil THEN OsBuilt(c, spec, NoError)
    ELSE IF ~spec.Router.nil THEN ChooseLBClient(WithRouter(c, spec, env), env)
    ELSE IF ValueOf(spec.Loadbalancer.UseOctavia) = "true"
    THEN OsBuilt(c, spec,
                 Errorf("cluster configured to use octavia, but router was not configured"))
    ELSE ChooseLBClient([c |-> c, spec |-> spec, octavia |-> FALSE, err |-> NoError], env)

\* lines 1295-1360, its network and load balancer parts: nil and an error when
\* a client cannot be built
LBClientBuilt(r) ==
    IF r.err.kind # "nil"
    THEN [nil |-> TRUE, c |-> r.c, spec |-> r.spec, stage |-> "lb",
          err |-> Errorf("failed to build load balancer client")]
    ELSE [nil |-> FALSE, c |-> r.c, spec |-> r.spec, stage |-> "lb", err |-> NoError]

buildClients(spec, env) ==
    IF NewServiceClient(env, "network").err.kind # "nil"
    THEN [nil |-> TRUE, c |-> NewOpenstackCloudStruct, spec |-> spec, stage |-> "neutron",
          err |-> Errorf("error building neutron client")]
    ELSE LBClientBuilt(
            buildLoadBalancerClient(setFloatingIPSupport(NewOpenstackCloudStruct, spec),
                                    spec, env))

OsClientsInit ==
    \E spec \in OpenstackSpecs, env \in OsClientEnvs :
        osCk = [pc |-> "call", fn |-> "buildClients", spec |-> spec, env |-> env]

DoBuildClients ==
    /\ osCk.pc = "call"
    /\ osCk.fn = "buildClients"
    /\ \E r \in {buildClients(osCk.spec, osCk.env)} :
         osCk' = [pc |-> "done", fn |-> osCk.fn, spec |-> osCk.spec, env |-> osCk.env,
                  out |-> r]
    /\ UNCHANGED <<coreVars, byName, exec, delCk, cfgVars>>

(***************************************************************************)
(* OpenStack: GetApiIngressStatus                                          *)
(***************************************************************************)
MaxLBs == 2
MaxOsInstances == 2

OsClusterName == "cluster1"
OsClusters ==
    [Name : {OsClusterName}, PublicName : {"", "api.example.com"}, Loadbalancer : BOOLEAN]

\* the load balancers of the cloud; one that is being created has no VIP port
OsLBs == [Name : {"api.cluster1", "api.example.com"}, VipPortID : {"", "port-1", "port-2"}]

\* the floating IPs the project may hold; the first one is not attached
OsFloatingIPs ==
    << [FloatingIP |-> "198.51.100.10", PortID |-> ""],
       [FloatingIP |-> "198.51.100.11", PortID |-> "port-1"],
       [FloatingIP |-> "198.51.100.12", PortID |-> "port-2"],
       [FloatingIP |-> "198.51.100.13", PortID |-> "port-3"] >>

\* an instance: its metadata (Nil for a missing key), and whether it has a
\* fixed IP on the network named by its KopsNetwork metadata
OsInstanceKinds ==
    [k8s : {Nil, OsClusterName, "cluster2"},
     KopsRole : {Nil, "ControlPlane", "Node", "garbage"},
     fixed : BOOLEAN]

OsInstance(id, kind) ==
    [ID |-> id, Metadata |-> [k8s |-> kind.k8s, KopsRole |-> kind.KopsRole],
     fixed |-> kind.fixed]

FixedIPOf(id) == "10.0.0." \o ToString(id)
FloatingIPOf(id) == "203.0.113." \o ToString(id)

OsIngressFailures ==
    { Failure(c, 1) : c \in {"none", "ListLBs", "ListInstances"} }
    \cup { Failure("ListL3FloatingIPs", n) : n \in 1..MaxLBs }
    \cup { Failure("ListServerFloatingIPs", n) : n \in 1..MaxOsInstances }

\* c.ListLBs: the load balancers of the name
ListLBs(cloud, name) == SelectSeq(cloud.lbs, LAMBDA lb : lb.Name = name)

\* c.ListL3FloatingIPs: the floating IPs of the port, all of them when the
\* options name no port
ListL3FloatingIPs(cloud, portID) ==
    SelectSeq(cloud.fips, LAMBDA fip : portID = "" \/ fip.PortID = portID)

FipMatches_Any(fip, lb) == TRUE

\* line 1664
FipMatches(fip, lb) == fip.PortID = lb.VipPortID

IPsOf(fips) == [i \in 1..Len(fips) |-> fips[i].FloatingIP]

\* lines 1657-1671: the loop over the load balancers; n is the number of the
\* call of ListL3FloatingIPs
RECURSIVE LBIngresses(_, _, _, _, _)
LBIngresses(cloud, lbList, ingresses, n, env) ==
    IF lbList = <<>> THEN [ingresses |-> ingresses, err |-> NoError]
    ELSE IF env.fail = Failure("ListL3FloatingIPs", n)
    THEN [ingresses |-> ingresses,
          err |-> Errorf("GetApiIngressStatus: Failed to list floating IP's")]
    ELSE LBIngresses(cloud, Tail(lbList),
                     ingresses \o IPsOf(SelectSeq(ListL3FloatingIPs(cloud, Head(lbList).VipPortID),
                                                  LAMBDA fip : FipMatches(fip, Head(lbList)))),
                     n + 1, env)

\* lines 1644-1647
LBNameOf(cluster) ==
    IF cluster.PublicName # "" THEN cluster.PublicName ELSE "api." \o cluster.Name

getLoadBalancerIngressStatus(cloud, cluster, env) ==
    IF env.fail.call = "ListLBs"
    THEN [ingresses |-> <<>>,
          err |-> Errorf("GetApiIngressStatus: Failed to list openstack loadbalancers")]
    ELSE LBIngresses(cloud, ListLBs(cloud, LBNameOf(cluster)), <<>>, 1, env)

\* kops.ParseInstanceGroupRole(val, false): the role the string names, Nil
\* when it names none
ParseInstanceGroupRole(val) ==
    IF val \in {"ControlPlane", "Node"} THEN val ELSE Nil

IsControlPlaneOf_AnyRole(instance, cluster) ==
    instance.Metadata.k8s # Nil /\ instance.Metadata.k8s = cluster.Name

\* lines 1682-1687: an instance of the control plane of the cluster
IsControlPlaneOf(instance, cluster) ==
    /\ instance.Metadata.k8s # Nil
    /\ instance.Metadata.k8s = cluster.Name
    /\ instance.Metadata.KopsRole # Nil
    /\ ParseInstanceGroupRole(instance.Metadata.KopsRole) = "ControlPlane"

\* lines 1681-1707: the loop over the instances; n is the number of the call
\* of ListServerFloatingIPs
RECURSIVE IPIngresses(_, _, _, _, _)
IPIngresses(instances, cluster, ingresses, n, env) ==
    IF instances = <<>> THEN [ingresses |-> ingresses, err |-> NoError]
    ELSE IF ~IsControlPlaneOf(Head(instances), cluster)
    THEN IPIngresses(Tail(instances), cluster, ingresses, n, env)
    ELSE IF Head(instances).fixed
    THEN IPIngresses(Tail(instances), cluster,
                     Append(ingresses, FixedIPOf(Head(instances).ID)), n, env)
    ELSE IF env.fail = Failure("ListServerFloatingIPs", n)
    THEN [ingresses |-> ingresses, err |-> Errorf("ListServerFloatingIPs")]
    ELSE IPIngresses(Tail(instances), cluster,
                     Append(ingresses, FloatingIPOf(Head(instances).ID)), n + 1, env)

\* vfs.RetryWithBackoff runs the function once: it returns as soon as the
\* function reports done or an error, and the function always does
getIPIngressStatus(cloud, cluster, env) ==
    IF env.fail.call = "ListInstances"
    THEN [ingresses |-> <<>>,
          err |-> Errorf("GetApiIngressStatus: Failed to list control plane nodes")]
    ELSE IPIngresses(cloud.instances, cluster, <<>>, 1, env)

getApiIngressStatus(cloud, cluster, env) ==
    IF cluster.Loadbalancer
    THEN getLoadBalancerIngressStatus(cloud, cluster, env)
    ELSE getIPIngressStatus(cloud, cluster, env)

OsLBClouds ==
    [lbs : SeqsUpTo(OsLBs, MaxLBs),
     fips : {SelectSeq(OsFloatingIPs, LAMBDA fip : fip.FloatingIP \in keep) :
                keep \in SUBSET {OsFloatingIPs[i].FloatingIP : i \in 1..Len(OsFloatingIPs)}},
     instances : {<<>>}]

OsInstanceClouds ==
    [lbs : {<<>>}, fips : {<<>>},
     instances : {[i \in 1..Len(kinds) |-> OsInstance(i, kinds[i])] :
                     kinds \in SeqsUpTo(OsInstanceKinds, MaxOsInstances)}]

OsIngressInit ==
    \E cluster \in OsClusters, fail \in OsIngressFailures :
    \E cloud \in IF cluster.Loadbalancer THEN OsLBClouds ELSE OsInstanceClouds :
        /\ fail.call \in IF cluster.Loadbalancer
                         THEN {"none", "ListLBs", "ListL3FloatingIPs"}
                         ELSE {"none", "ListInstances", "ListServerFloatingIPs"}
        /\ osCk = [pc |-> "call", fn |-> "getApiIngressStatus", cluster |-> cluster,
                   cloud |-> cloud, env |-> [fail |-> fail]]

DoGetApiIngressStatus ==
    /\ osCk.pc = "call"
    /\ osCk.fn = "getApiIngressStatus"
    /\ \E r \in {getApiIngressStatus(osCk.cloud, osCk.cluster, osCk.env)} :
         osCk' = [pc |-> "done", fn |-> osCk.fn, cluster |-> osCk.cluster,
                  cloud |-> osCk.cloud, env |-> osCk.env, out |-> r]
    /\ UNCHANGED <<coreVars, byName, exec, delCk, cfgVars>>

OsInit == OsClientsInit \/ OsIngressInit


ScwCheckIdle == scwCk = [pc |-> "idle"]

(***************************************************************************)
(* nodeup.NewConfig (src/pkg/apis/nodeup/config.go)                        *)
(*                                                                         *)
(* The cluster is handed over by pointer, and so are the structs its spec  *)
(* points to.  A struct NewConfig writes through a pointer it took from    *)
(* the cluster is the struct of the cluster: the model keeps the cluster   *)
(* as NewConfig leaves it, next to the config it returns.                  *)
(***************************************************************************)
MaxBuilds == 2

NvidiaDefaultDriverPackage == "nvidia-driver-535-server"

\* a kops.NvidiaGPUConfig: Enabled is a *bool, "nil" when unset
NvidiaGPUConfig(enabled, package) == [Enabled |-> enabled, DriverPackage |-> package]
ZeroNvidiaGPUConfig == NvidiaGPUConfig("nil", "")

\* a kops.ContainerdConfig
ContainerdConfig(version, gpu) == [Version |-> version, NvidiaGPU |-> gpu]

\* a kops.AWSAuthenticationSpec; &kops.AWSAuthenticationSpec{} has no image
AWSAuthenticationSpec(image) == [Image |-> image]

\* the cluster specs NewConfig is called with
NodeupClusters ==
    [ Containerd :
        {NilStruct} \cup
        { ContainerdConfig("1.6.20", gpu) :
            gpu \in {NilStruct, ZeroNvidiaGPUConfig,
                     NvidiaGPUConfig("true", "nvidia-driver-470-server")} },
      Authentication :
        {NilStruct, [AWS |-> NilStruct],
         [AWS |-> AWSAuthenticationSpec("aws-iam-authenticator:v0.6.11")]},
      KubeProxy : {NilStruct, [Enabled |-> "nil"], [Enabled |-> "false"]},
      IsolateControlPlane : {"nil", "true"} ]

\* the instance groups of the cluster
NodeupInstanceGroups ==
    [ Role : {"ControlPlane", "APIServer", "Node"},
      Containerd :
        {NilStruct, ContainerdConfig("", NilStruct),
         ContainerdConfig("", NvidiaGPUConfig("true", "")),
         ContainerdConfig("", NvidiaGPUConfig("true", "nvidia-driver-525-server"))} ]

\* instanceGroup.HasAPIServer() and instanceGroup.IsControlPlane()
HasAPIServer(ig) == ig.Role \in {"ControlPlane", "APIServer"}
IsControlPlane(ig) == ig.Role = "ControlPlane"

\* reflectutils.JSONMergeStruct(&dest, src) for a NvidiaGPUConfig: src is
\* marshalled, its unset fields left out, and unmarshalled into the struct
\* dest points to
JSONMergeNvidiaGPU(dest, src) ==
    [Enabled |-> IF src.Enabled = "nil" THEN dest.Enabled ELSE src.Enabled,
     DriverPackage |-> IF src.DriverPackage = "" THEN dest.DriverPackage
                       ELSE src.DriverPackage]

\* the same for a ContainerdConfig; the struct of an unset pointer is allocated
JSONMergeContainerd(dest, src) ==
    LET base == IF dest = NilStruct THEN ContainerdConfig("", NilStruct) ELSE dest IN
    [Version |-> IF src.Version = "" THEN base.Version ELSE src.Version,
     NvidiaGPU |->
        IF src.NvidiaGPU = NilStruct THEN base.NvidiaGPU
        ELSE JSONMergeNvidiaGPU(IF base.NvidiaGPU = NilStruct THEN ZeroNvidiaGPUConfig
                                ELSE base.NvidiaGPU,
                                src.NvidiaGPU)]

HasNvidiaGPU(containerd) == containerd # NilStruct /\ containerd.NvidiaGPU # NilStruct

\* lines 318-325: the deep copy of the containerd config of the cluster with
\* the one of the instance group merged into it
buildContainerdConfig(cluster, instanceGroup) ==
    IF instanceGroup.Containerd # NilStruct
    THEN JSONMergeContainerd(cluster.Containerd, instanceGroup.Containerd)
    ELSE cluster.Containerd

\* lines 328-343: config is the pointer cluster.Spec.Containerd.NvidiaGPU when
\* the cluster has one, so the merge of line 335 and the default of line 339
\* are written into the struct of the cluster
buildNvidiaConfig(cluster, instanceGroup) ==
    LET aliased == HasNvidiaGPU(cluster.Containerd)
        config == IF aliased THEN cluster.Containerd.NvidiaGPU ELSE ZeroNvidiaGPUConfig
        merged == IF HasNvidiaGPU(instanceGroup.Containerd)
                  THEN JSONMergeNvidiaGPU(config, instanceGroup.Containerd.NvidiaGPU)
                  ELSE config
        built == IF merged.DriverPackage = ""
                 THEN [merged EXCEPT !.DriverPackage = NvidiaDefaultDriverPackage]
                 ELSE merged
    IN  [config |-> built,
         cluster |-> IF aliased THEN [cluster EXCEPT !.Containerd.NvidiaGPU = built]
                     ELSE cluster]

\* lines 346-359: the kube-proxy config of the cluster, nil when kube-proxy is
\* disabled or the control plane is isolated
buildKubeProxy(cluster, instanceGroup) ==
    LET config == IF cluster.KubeProxy # NilStruct THEN cluster.KubeProxy
                  ELSE [Enabled |-> "nil"]
    IN  IF config.Enabled = "false" THEN NilStruct
        ELSE IF IsControlPlane(instanceGroup) /\ cluster.IsolateControlPlane = "true"
        THEN NilStruct
        ELSE config

\* lines 298-309: config.APIServerConfig.Authentication is the pointer
\* cluster.Spec.Authentication, so line 306 replaces the AWS spec of the cluster
APIServerAuthentication(cluster, instanceGroup) ==
    IF ~HasAPIServer(instanceGroup) \/ cluster.Authentication = NilStruct
    THEN [config |-> NilStruct, cluster |-> cluster]
    ELSE IF cluster.Authentication.AWS = NilStruct
    THEN [config |-> cluster.Authentication, cluster |-> cluster]
    ELSE LET written == [cluster.Authentication EXCEPT !.AWS = AWSAuthenticationSpec("")]
         IN  [config |-> written, cluster |-> [cluster EXCEPT !.Authentication = written]]

\* lines 183-316: the parts of the config built from the structs the cluster
\* points to, and the cluster as the call leaves it
NewConfig(cluster, instanceGroup) ==
    LET containerd == IF cluster.Containerd # NilStruct
                         \/ instanceGroup.Containerd # NilStruct
                      THEN buildContainerdConfig(cluster, instanceGroup)
                      ELSE NilStruct
        gpu == IF HasNvidiaGPU(cluster.Containerd) \/ HasNvidiaGPU(instanceGroup.Containerd)
               THEN buildNvidiaConfig(cluster, instanceGroup)
               ELSE [config |-> NilStruct, cluster |-> cluster]
        kubeProxy == buildKubeProxy(gpu.cluster, instanceGroup)
        auth == APIServerAuthentication(gpu.cluster, instanceGroup)
    IN  [config |-> [ContainerdConfig |-> containerd,
                     NvidiaGPU |-> gpu.config,
                     KubeProxy |-> kubeProxy,
                     Authentication |-> auth.config],
         cluster |-> auth.cluster]

\* the cluster as loaded, the cluster as the calls so far have left it, and
\* the configs built, one for each call
NodeupInit ==
    \E cluster \in NodeupClusters :
        nodeup = [pc |-> "build", cluster0 |-> cluster, cluster |-> cluster, built |-> <<>>]

NodeupIdle == nodeup = [pc |-> "idle"]

\* one call of NewConfig for an instance group of the cluster
DoNewConfig ==
    /\ nodeup.pc = "build"
    /\ Len(nodeup.built) < MaxBuilds
    /\ \E ig \in NodeupInstanceGroups :
       \E r \in {NewConfig(nodeup.cluster, ig)} :
          nodeup' = [nodeup EXCEPT !.cluster = r.cluster,
                                   !.built = Append(@, [ig |-> ig, config |-> r.config])]
    /\ UNCHANGED <<coreVars, lbVars, gceFw>>

(***************************************************************************)
(* GCEModelContext.AddFirewallRulesTasks (src/unnamed/part_000)            *)
(***************************************************************************)
MaxRanges == 2

\* the source ranges of the model: the text, the IP of the network
\* net.ParseCIDR returns for it (<<>> when it returns an error: the last text
\* has no mask), and the family the notation is of
FwSourceRanges ==
    { [text |-> "100.96.0.0/11", ip |-> <<100, 96, 0, 0>>, family |-> "ipv4"],
      [text |-> "10.0.0.0/8", ip |-> <<10, 0, 0, 0>>, family |-> "ipv4"],
      [text |-> "2001:db8::/32",
       ip |-> <<32, 1, 13, 184, 0, 0, 0, 0, 0, 0, 0, 0, 0, 0, 0, 0>>, family |-> "ipv6"],
      [text |-> "::ffff:10.0.0.0/104",
       ip |-> <<0, 0, 0, 0, 0, 0, 0, 0, 0, 0, 255, 255, 10, 0, 0, 0>>, family |-> "ipv6"],
      [text |-> "100.96.0.0", ip |-> <<>>, family |-> "none"] }

FwRangeOf(text) == CHOOSE r \in FwSourceRanges : r.text = text

\* net.ParseCIDR(sourceRange): the IP of the network, or an error
ParseCIDR(sourceRange) ==
    [err |-> FwRangeOf(sourceRange).ip = <<>>, IP |-> FwRangeOf(sourceRange).ip]

\* IP.To4: the four bytes of an IPv4 address, also when it is held in 16
\* bytes behind the prefix ::ffff; <<>> for any other address
To4(ip) ==
    IF Len(ip) = 4 THEN ip
    ELSE IF Len(ip) = 16 /\ (\A i \in 1..10 : ip[i] = 0) /\ ip[11] = 255 /\ ip[12] = 255
    THEN SubSeq(ip, 13, 16)
    ELSE <<>>

\* strings.Contains(sourceRange, ":") on the source ranges of the model
ContainsColon(sourceRange) == sourceRange \in {"2001:db8::/32", "::ffff:10.0.0.0/104"}

IsIPv4SourceRange_ByTo4(sourceRange) == To4(ParseCIDR(sourceRange).IP) # <<>>

\* line 169: IPv4-mapped IPv6 ranges are treated as IPv6
IsIPv4SourceRange(sourceRange) ==
    To4(ParseCIDR(sourceRange).IP) # <<>> /\ ~ContainsColon(sourceRange)

\* the source ranges of s of the IPv4 list (ipv4) or of the IPv6 list, in the
\* order of s
RECURSIVE SelectRanges(_, _)
SelectRanges(s, ipv4) ==
    IF s = <<>> THEN <<>>
    ELSE IF IsIPv4SourceRange(Head(s)) = ipv4
    THEN <<Head(s)>> \o SelectRanges(Tail(s), ipv4)
    ELSE SelectRanges(Tail(s), ipv4)

\* b.NameForFirewallRule(name): the name of the rule within the cluster
NameForFirewallRule(name) == name \o "-cluster1-k8s-local"

\* c.AddTask(task): the task is registered under its name; a second task of
\* the same name is refused
AddTask(c, task) ==
    IF \E i \in 1..Len(c.tasks) : c.tasks[i].Name = task.Name
    THEN [c EXCEPT !.err = Errorf("found duplicate tasks with name")]
    ELSE [c EXCEPT !.tasks = Append(@, task)]

\* lines 199-207: icmp becomes 58, the protocol number of ICMPv6
ICMPv6Allowed(allowed) ==
    [ i \in 1..Len(allowed) |-> IF allowed[i] = "icmp" THEN "58" ELSE allowed[i] ]

\* lines 176-186
IPv4Rule(name, rule) ==
    LET ipv4SourceRanges == SelectRanges(rule.SourceRanges, TRUE) IN
    [rule EXCEPT !.Name = NameForFirewallRule(name),
                 !.Family = "ipv4",
                 !.SourceRanges = IF ipv4SourceRanges = <<>> THEN <<"0.0.0.0/0">>
                                  ELSE ipv4SourceRanges,
                 !.Disabled = IF ipv4SourceRanges = <<>> THEN TRUE ELSE @]

\* lines 188-208
IPv6Rule(name, rule) ==
    LET ipv6SourceRanges == SelectRanges(rule.SourceRanges, FALSE) IN
    [rule EXCEPT !.Name = NameForFirewallRule(name \o "-ipv6"),
                 !.Family = "ipv6",
                 !.SourceRanges = IF ipv6SourceRanges = <<>> THEN <<"::/0">>
                                  ELSE ipv6SourceRanges,
                 !.Disabled = IF ipv6SourceRanges = <<>> THEN TRUE ELSE @,
                 !.Allowed = ICMPv6Allowed(@)]

\* lines 159-211: klog.Fatalf ends the process at a source range that does
\* not parse, before any task is added
AddFirewallRulesTasks(c, name, rule) ==
    IF \E i \in 1..Len(rule.SourceRanges) : ParseCIDR(rule.SourceRanges[i]).err
    THEN [c EXCEPT !.fatal = TRUE]
    ELSE AddTask(AddTask(c, IPv4Rule(name, rule)), IPv6Rule(name, rule))

\* the rule handed over: no name and no family yet
FwRule(sourceRanges, allowed, disabled) ==
    [Name |-> Nil, Family |-> Nil, SourceRanges |-> sourceRanges,
     TargetTags |-> <<"cluster1-k8s-local-k8s-io-role-node">>,
     Allowed |-> allowed, Disabled |-> disabled]

FwAllowed ==
    { <<>>,
      <<"tcp", "udp", "icmp", "esp", "ah", "sctp">>,
      <<"icmp", "tcp:443", "icmp">> }

FwRules ==
    { FwRule(sourceRanges, allowed, disabled) :
        sourceRanges \in SeqsUpTo({ r.text : r \in FwSourceRanges }, MaxRanges),
        allowed \in FwAllowed, disabled \in BOOLEAN }

\* the tasks the model builder has added before the call
FwContexts ==
    { [tasks |-> tasks, err |-> NoError, fatal |-> FALSE] :
        tasks \in { <<>>,
                    <<[FwRule(<<>>, <<"tcp">>, FALSE)
                         EXCEPT !.Name = NameForFirewallRule("node-to-node")]>> } }

FwInit ==
    \E c \in FwContexts, rule \in FwRules :
        gceFw = [pc |-> "call", name |-> "pod-cidrs-to-node", rule |-> rule,
                 before |-> c, c |-> c]

FwIdle == gceFw = [pc |-> "idle"]

DoAddFirewallRulesTasks ==
    /\ gceFw.pc = "call"
    /\ gceFw' = [gceFw EXCEPT !.pc = "done",
                              !.c = AddFirewallRulesTasks(gceFw.c, gceFw.name, gceFw.rule)]
    /\ UNCHANGED <<coreVars, lbVars, nodeup>>

(***************************************************************************)
(* Subsystems at rest                                                      *)
(***************************************************************************)
ByNameIdle == byName = [pc |-> "idle"]
ExecIdle == exec = [pc |-> "idle"]
DelIdle == delCk = [pc |-> "idle"]
OsIdle == osCk = [pc |-> "idle"]
LbIdle == ByNameIdle /\ ExecIdle /\ DelIdle /\ OsIdle
CfgIdle == NodeupIdle /\ FwIdle
CoreIdle == NLBCheckIdle /\ ScwCheckIdle /\ NormalizeIdle /\ ScwIdle /\ NLBIdle /\ FindIdle

InitNLBCheck == NLBCheckInit /\ ScwCheckIdle /\ NormalizeIdle /\ ScwIdle /\ NLBIdle /\ FindIdle /\ LbIdle /\ CfgIdle
NextNLBCheck == DoNLBCheckChanges
SpecNLBCheck == InitNLBCheck /\ [][NextNLBCheck]_vars

InitScwCheck == ScwCheckInit /\ NLBCheckIdle /\ NormalizeIdle /\ ScwIdle /\ NLBIdle /\ FindIdle /\ LbIdle /\ CfgIdle

InitNormalize == NormalizeInit /\ NLBCheckIdle /\ ScwCheckIdle /\ ScwIdle /\ NLBIdle /\ FindIdle /\ LbIdle /\ CfgIdle
NextNormalize == DoNormalize
SpecNormalize == InitNormalize /\ [][NextNormalize]_vars

InitScw == ScwInit /\ NLBCheckIdle /\ ScwCheckIdle /\ NormalizeIdle /\ NLBIdle /\ FindIdle /\ LbIdle /\ CfgIdle
NextScw == ScwEdit \/ ScwRun
SpecScw == InitScw /\ [][NextScw]_vars

InitNLB == NLBInit /\ NLBCheckIdle /\ ScwCheckIdle /\ NormalizeIdle /\ ScwIdle /\ FindIdle /\ LbIdle /\ CfgIdle
NextNLB == NLBRun
SpecNLB == InitNLB /\ [][NextNLB]_vars

InitFind == FindInit /\ NLBCheckIdle /\ ScwCheckIdle /\ NormalizeIdle /\ ScwIdle /\ NLBIdle /\ LbIdle /\ CfgIdle
NextFind == DoNLBFind \/ DoScwFind
SpecFind == InitFind /\ [][NextFind]_vars
NextScwCheck == DoScwCheckChanges
SpecScwCheck == InitScwCheck /\ [][NextScwCheck]_vars

\* the applies of the instance group that succeed
ScwRunOk == ScwRun /\ scwOut'.err = NoError
NextScwOk == ScwEdit \/ ScwRunOk
SpecScwOk == InitScw /\ [][NextScwOk]_vars

InitByName == ByNameInit /\ CoreIdle /\ ExecIdle /\ DelIdle /\ OsIdle /\ CfgIdle
NextByName == DoFindByName
SpecByName == InitByName /\ [][NextByName]_vars

InitExec == ExecInit /\ CoreIdle /\ ByNameIdle /\ DelIdle /\ OsIdle /\ CfgIdle
NextExec ==
    \/ BuildGraph
    \/ \E t \in ExecTasks : StartTask(t) \/ StepTask(t) \/ FailTask(t) \/ BlockTask(t)
    \/ Finish
SpecExec == InitExec /\ [][NextExec]_vars
\* the workers of the pool keep running while a task can make a step
SpecExecLive == SpecExec /\ WF_vars(NextExec)

InitDeletions == DelInit /\ CoreIdle /\ ByNameIdle /\ ExecIdle /\ OsIdle /\ CfgIdle
NextDeletions == DoFindDeletions
SpecDeletions == InitDeletions /\ [][NextDeletions]_vars

InitOpenstack == OsInit /\ CoreIdle /\ ByNameIdle /\ ExecIdle /\ DelIdle /\ CfgIdle
NextOpenstack == DoBuildClients \/ DoGetApiIngressStatus
SpecOpenstack == InitOpenstack /\ [][NextOpenstack]_vars

InitNodeup == NodeupInit /\ CoreIdle /\ LbIdle /\ FwIdle
NextNodeup == DoNewConfig
SpecNodeup == InitNodeup /\ [][NextNodeup]_vars

InitFirewall == FwInit /\ CoreIdle /\ LbIdle /\ NodeupIdle
NextFirewall == DoAddFirewallRulesTasks
SpecFirewall == InitFirewall /\ [][NextFirewall]_vars

(***************************************************************************)
(* Properties of NetworkLoadBalancer.CheckChanges (SpecNLBCheck)           *)
(***************************************************************************)
NLBChecked == nlbCk.pc = "done"

\* C1: on creation (actual nil), an expected task with a non-empty Name and
\* no subnet mapping is rejected with RequiredField("SubnetMappings").
C1_CreationRequiresSubnetMappings ==
    ( /\ NLBChecked
      /\ nlbCk.a = NilNLB
      /\ ValueOf(nlbCk.e.Name) # ""
      /\ Len(nlbCk.e.SubnetMappings) = 0 )
    => nlbCk.err = RequiredField("SubnetMappings")

C1_Witness ==
    /\ NLBChecked
    /\ nlbCk.a = NilNLB
    /\ nlbCk.e.Name = "api.cluster1"
    /\ nlbCk.e.SubnetMappings = <<>>
    /\ nlbCk.err = RequiredField("SubnetMappings")

\* expected keeps every subnet of actual with the same address settings
KeepsActualSubnets(a, e) ==
    \A i \in 1..Len(a.SubnetMappings) :
        \E j \in 1..Len(e.SubnetMappings) : e.SubnetMappings[j] = a.SubnetMappings[i]

\* expected adds at least one subnet actual does not have
AddsSubnets(a, e) ==
    SubnetIDsOf(e.SubnetMappings) \ SubnetIDsOf(a.SubnetMappings) # {}

\* C2: on update, an expected task that keeps every actual subnet with the
\* same address settings and only adds subnets passes CheckChanges.
C2_AdditionOnlySucceeds ==
    ( /\ NLBChecked
      /\ nlbCk.a # NilNLB
      /\ KeepsActualSubnets(nlbCk.a, nlbCk.e)
      /\ AddsSubnets(nlbCk.a, nlbCk.e) )
    => nlbCk.err = NoError

\* the index of the first actual subnet that expected no longer lists
DetachedSubnets(a, e) ==
    { i \in 1..Len(a.SubnetMappings) :
        a.SubnetMappings[i].ID \notin SubnetIDsOf(e.SubnetMappings) }

\* C3: on update with changes.SubnetMappings non-empty, if expected drops a
\* subnet of actual then CheckChanges fails: with the detaching error, or
\* with the address-settings error of an earlier actual subnet.
C3_DetachingSubnetFails ==
    ( /\ NLBChecked
      /\ nlbCk.a # NilNLB
      /\ Len(nlbCk.changes.SubnetMappings) > 0
      /\ DetachedSubnets(nlbCk.a, nlbCk.e) # {} )
    => \/ nlbCk.err = Errorf("network load balancers do not support detaching subnets")
       \/ /\ nlbCk.err =
                Errorf("network load balancers do not support modifying address settings")
          /\ \E k \in 1..(Min(DetachedSubnets(nlbCk.a, nlbCk.e)) - 1) :
                LET s == nlbCk.a.SubnetMappings[k] IN
                \/ ValueOf(ExpectedSubnetsAt(nlbCk.e, s.ID)) # ValueOf(s.PrivateIPv4Address)
                \/ ValueOf(ExpectedSubnetsAt(nlbCk.e, s.ID)) # ValueOf(s.AllocationID)

C3_Witness ==
    /\ NLBChecked
    /\ nlbCk.a # NilNLB
    /\ SubnetIDsOf(nlbCk.a.SubnetMappings) = {"subnet-a", "subnet-b"}
    /\ SubnetIDsOf(nlbCk.e.SubnetMappings) = {"subnet-a", "subnet-c"}
    /\ Len(nlbCk.changes.SubnetMappings) > 0
    /\ nlbCk.err = Errorf("network load balancers do not support detaching subnets")

(***************************************************************************)
(* Properties of Instance.CheckChanges (SpecScwCheck)                      *)
(***************************************************************************)
ScwChecked == scwCk.pc = "done"

\* C4: on creation, Instance.CheckChanges returns RequiredField exactly when
\* one of Name, Zone, CommercialType, Image is unset, naming the first unset
\* one in that order, and nil when all four are set.
C4_CreationRequiredFields ==
    (ScwChecked /\ scwCk.a = NilInstance) =>
        LET first == FirstField({ f \in DOMAIN scwCk.e : scwCk.e[f] = Nil })
        IN  /\ (scwCk.err.kind = "RequiredField") <=> (first # "")
            /\ first # "" => scwCk.err = RequiredField(first)
            /\ first = "" => scwCk.err = NoError

C4_Witness ==
    /\ ScwChecked
    /\ scwCk.a = NilInstance
    /\ scwCk.e.Name # Nil /\ scwCk.e.Zone # Nil
    /\ scwCk.e.CommercialType # Nil /\ scwCk.e.Image = Nil
    /\ scwCk.err = RequiredField("Image")

\* C5: on update, Instance.CheckChanges returns CannotChangeField whenever
\* changes carries Name, Zone, CommercialType or Image, returns nil only when
\* it carries none of them, and the run never renders such a change.
C5_ImmutableFieldsNeverRendered ==
    (ScwChecked /\ scwCk.a # NilInstance) =>
        /\ HasImmutableChange(scwCk.changes) => scwCk.err.kind = "CannotChangeField"
        /\ scwCk.err = NoError => ~ HasImmutableChange(scwCk.changes)
        /\ scwCk.rendered => ~ HasImmutableChange(scwCk.changes)

C5_Witness ==
    /\ ScwChecked
    /\ scwCk.a # NilInstance
    /\ scwCk.changes.Name = Nil /\ scwCk.changes.Zone = Nil
    /\ scwCk.changes.CommercialType = Nil /\ scwCk.changes.Image # Nil
    /\ scwCk.err = CannotChangeField("Image")
    /\ ~ scwCk.rendered


(***************************************************************************)
(* Properties of NetworkLoadBalancer.Normalize (SpecNormalize)             *)
(***************************************************************************)
SameLists(t, u) ==
    /\ t.SubnetMappings = u.SubnetMappings
    /\ t.Listeners = u.Listeners
    /\ t.TargetGroups = u.TargetGroups

DistinctPorts(s) == \A i, j \in 1..Len(s) : i # j => s[i].Port # s[j].Port
DistinctNames(s) == \A i, j \in 1..Len(s) : i # j => s[i].Name # s[j].Name

ScwRendered == scwOut.stage = "render" /\ scwOut.err = NoError

\* the Find of the next apply, the cloud answering
ScwFindAgain ==
    InstanceFind(scwTask, scwServers, [fail |-> NoFailure, lbs |-> 1, backends |-> 1])

\* C7 as stated: after RenderScw returns nil, an immediate Find returns an
\* actual whose Count equals expected.Count, whatever the counts were.
C7_FindReportsExpectedCount ==
    ScwRendered =>
        /\ ScwFindAgain.err = NoError
        /\ ScwFindAgain.actual # NilInstance
        /\ ScwFindAgain.actual.Count = scwTask.Count

\* C7 amended: after RenderScw returns nil with expected.Count at least 1, an
\* immediate Find returns an actual whose Count equals expected.Count; with
\* expected.Count 0 the group has no server and Find returns nil.
C7_FindReportsPositiveCount ==
    ScwRendered =>
        /\ ScwFindAgain.err = NoError
        /\ IF scwTask.Count >= 1
           THEN /\ ScwFindAgain.actual # NilInstance
                /\ ScwFindAgain.actual.Count = scwTask.Count
           ELSE ScwFindAgain.actual = NilInstance

\* a scale-down to a positive count was rendered
C7_Witness ==
    /\ ScwRendered
    /\ scwOut.a # NilInstance
    /\ scwOut.a.Count > scwTask.Count
    /\ scwTask.Count >= 1
    /\ \E i \in 1..Len(scwOut.calls) : scwOut.calls[i].op = "DeleteServer"

\* RenderScw ran on an actual with the expected count
ScwRenderedConverged ==
    /\ scwOut.stage = "render"
    /\ scwOut.a # NilInstance
    /\ scwOut.a.Count = scwTask.Count

ScwNoMutatingCall ==
    \A i \in 1..Len(scwOut.calls) : scwOut.calls[i].op \notin ScwMutating

\* C8 as stated: with actual non-nil and actual.Count = expected.Count,
\* RenderScw makes no mutating call and returns nil.
C8_ConvergedRenderIsNoOp ==
    ScwRenderedConverged => ScwNoMutatingCall /\ scwOut.err = NoError

\* C8 amended: with actual non-nil and actual.Count = expected.Count,
\* RenderScw makes no mutating call; it returns nil when the user data of the
\* task can be read, and the error of reading it otherwise.
C8_ConvergedRenderMakesNoCall ==
    ScwRenderedConverged =>
        /\ ScwNoMutatingCall
        /\ scwServers = GetClusterServers(scwServers, scwTask.Name)
        /\ Len(scwServers) = scwOut.a.Count
        /\ (scwTask.UserData = "cloud-init" => scwOut.err = NoError)
        /\ (scwTask.UserData = "unreadable" => scwOut.err # NoError)

\* a converged control-plane group with readable user data was rendered
C8_Witness ==
    /\ ScwRenderedConverged
    /\ scwTask.UserData = "cloud-init"
    /\ scwTask.Count >= 1
    /\ scwOut.err = NoError

(***************************************************************************)
(* Claims about the runs of the NetworkLoadBalancer task, and about Find   *)
(***************************************************************************)
\* RenderAWS ran in the last apply, on an existing load balancer
NLBRenderedUpdate == nlbOut.stage = "render" /\ nlbOut.a # NilNLB

NLBCalled == { nlbOut.calls[i].op : i \in 1..Len(nlbOut.calls) }

\* the calls of ops are made only when changes carries the field
OnlyIfChanged(ops, field) == NLBCalled \cap ops # {} => field \in nlbOut.changes.set

\* the guards the update has in the source: RenderAWS calls SetIpAddressType only if
\* changes.IpAddressType is set, SetSubnets only if changes.SubnetMappings is
\* set, and deletes or creates listeners only if changes.Listeners is set.
OnlyImpliedCallsButTags ==
    NLBRenderedUpdate =>
        /\ OnlyIfChanged({"SetIpAddressType"}, "IpAddressType")
        /\ OnlyIfChanged({"SetSubnets"}, "SubnetMappings")
        /\ OnlyIfChanged({"DeleteListener", "CreateListener"}, "Listeners")

\* C9 as stated: on update RenderAWS makes only the mutating calls implied by
\* the fields changes carries: SetIpAddressType only with IpAddressType,
\* SetSubnets only with SubnetMappings, listener deletion and creation only
\* with Listeners, tag addition and removal only with Tags, and none at all
\* when changes is empty.
C9_OnlyCallsImpliedByChanges ==
    NLBRenderedUpdate =>
        /\ OnlyIfChanged({"SetIpAddressType"}, "IpAddressType")
        /\ OnlyIfChanged({"SetSubnets"}, "SubnetMappings")
        /\ OnlyIfChanged({"DeleteListener", "CreateListener"}, "Listeners")
        /\ OnlyIfChanged({"AddTags", "RemoveTags"}, "Tags")
        /\ (nlbOut.changes.set = {} => NLBCalled \cap NLBMutating = {})

\* the resource the task of the call stands for is not in the cloud
FindAbsent ==
    IF findCk.which = "nlb"
    THEN findCk.cloud = NoLB
         \/ <<"Name", TagValue(findCk.task.Tags, "Name")>> \notin findCk.cloud.Tags
    ELSE \A i \in 1..Len(findCk.cloud) :
            TagInstanceGroup(findCk.cloud[i].Tags) # findCk.task.Name

FindAnswered == findCk.pc = "done" /\ findCk.env.fail.call = "none"

\* C10: when the cloud answers and holds no load balancer with the Name tag
\* of the task (NetworkLoadBalancer.Find), or no server of the instance group
\* (Instance.Find), Find returns nil and no error, and the expected task is as
\* it was before the call.
C10_FindAbsentReturnsNil ==
    FindAnswered /\ FindAbsent =>
        /\ findCk.actual = [nil |-> TRUE]
        /\ findCk.err = NoError
        /\ findCk.e = findCk.task

\* Find answered for a task whose load balancer name is unset, the cloud
\* holding the load balancer of another cluster only
C10_Witness ==
    /\ FindAnswered
    /\ FindAbsent
    /\ findCk.which = "nlb"
    /\ findCk.cloud # NoLB
    /\ findCk.task.LoadBalancerName = Nil

\* Find answered for an instance group without servers, the cluster having
\* servers of another group
FindAbsentInstance ==
    /\ FindAnswered
    /\ FindAbsent
    /\ findCk.which = "scw"
    /\ Len(findCk.cloud) > 0


(***************************************************************************)
(* Properties of findNetworkLoadBalancerByLoadBalancerName (SpecByName)    *)
(***************************************************************************)
ByNameDone == byName.pc = "done"
NotFoundByProvider == byName.response.err = AWSError("LoadBalancerNotFound")

\* C11: when DescribeLoadBalancers fails with the AWS error code
\* "LoadBalancerNotFound", findNetworkLoadBalancerByLoadBalancerName returns
\* (nil, nil): no load balancer and no error.
C11_NotFoundIsAbsence ==
    (ByNameDone /\ NotFoundByProvider) => (byName.lb = Nil /\ byName.err = NoError)

\* What the function does return for the provider's not-found: the error of
\* any other failed listing.
NotFoundIsReportedAsError ==
    (ByNameDone /\ byName.response.err.kind # "nil")
        => (byName.lb = Nil /\ byName.err = Errorf("error listing NLBs"))

(***************************************************************************)
(* Properties of the executor (SpecExec, SpecExecLive)                     *)
(***************************************************************************)
ScwLBGraph == "LoadBalancer" \in DOMAIN exec.deps
GenericGraph == "A" \in DOMAIN exec.deps
Started(t) == exec.status[t] \notin {"Pending", "Blocked"}
IsDone(t) == exec.status[t] = "Done"

\* C12: for the three tasks of the Scaleway API load-balancer builder, in
\* every interleaving of the worker pool and whatever the registration order,
\* LBBackend starts only when LoadBalancer is Done and LBFrontend starts only
\* when LBBackend (and LoadBalancer) are Done.
C12_ScwLBDependencyOrder ==
    ScwLBGraph =>
        /\ Started("LBBackend") => IsDone("LoadBalancer")
        /\ Started("LBFrontend") => (IsDone("LBBackend") /\ IsDone("LoadBalancer"))

\* the frontend was registered first and rendered last
C12_Witness ==
    /\ ScwLBGraph
    /\ exec.order[1] = "LBFrontend"
    /\ IsDone("LBFrontend")

FailedTasks == {t \in ExecTasks : exec.status[t] = "Failed"}
\* the tasks that depend, directly or not, on a failed task
Fallout == {t \in ExecTasks : Reach(exec.deps, t) \cap FailedTasks # {}}

PartialFailure ==
    /\ \A t \in Fallout : t \notin exec.attempted
    /\ exec.pc = "done" =>
         /\ \A t \in Fallout : exec.status[t] = "Blocked" /\ t \in exec.blocked
         /\ \A t \in ExecTasks \ Fallout : t \in exec.attempted
         /\ exec.failed = FailedTasks
         /\ exec.blocked \cap exec.failed = {}

\* C13: when a task fails, every task that depends on it, directly or not, is
\* never attempted and is reported as blocked; every other task is still
\* attempted; and the apply ends, reporting all the failures together.
C13_PartialFailureContinuation ==
    /\ []PartialFailure
    /\ <>(exec.pc \in {"done", "fatal"})

\* A failed, B (which points to A) blocked, C done
C13_Witness ==
    /\ GenericGraph
    /\ exec.pc = "done"
    /\ exec.failed = {"A"}
    /\ exec.blocked = {"B"}
    /\ IsDone("C")

ThreeCycle ==
    /\ GenericGraph
    /\ "B" \in exec.deps["A"]
    /\ "C" \in exec.deps["B"]
    /\ "A" \in exec.deps["C"]

CycleIsFatal ==
    (ThreeCycle /\ exec.pc # "build") =>
        /\ exec.pc = "fatal"
        /\ {"A", "B", "C"} \subseteq exec.cycle
        /\ exec.attempted = {}
        /\ \A t \in {"A", "B", "C"} : exec.status[t] = "Pending"

\* C14: building the graph of tasks that form the cycle A -> B -> C -> A ends
\* in a fatal error that names the tasks of the cycle, before any task is
\* diffed or rendered; it does not hang and it drops no task.
C14_CycleDetection ==
    /\ []CycleIsFatal
    /\ (ThreeCycle ~> exec.pc = "fatal")

C14_Witness == ThreeCycle /\ exec.pc = "fatal" /\ exec.cycle = {"A", "B", "C"}

(***************************************************************************)
(* Properties of NetworkLoadBalancer.FindDeletions (SpecDeletions)         *)
(***************************************************************************)
DeletionsFound == delCk.pc = "done"
SchedulesDeletion == DeletionsFound /\ delCk.deletions # <<>>
ClassicFound ==
    /\ delCk.e.CLBName # Nil
    /\ ~delCk.cloud.fail
    /\ ~delCk.cloud.clb.nil
    /\ delCk.cloud.clb.NameTag = delCk.e.CLBName

\* C15: FindDeletions schedules the classic load balancer named by CLBName for
\* deletion only when the network load balancer that replaces it exists in the
\* cloud, and schedules nothing when CLBName is unset or no classic load
\* balancer is found.
C15_DeletionOnlyAfterReplacement ==
    /\ SchedulesDeletion => delCk.cloud.nlb
    /\ (DeletionsFound /\ ~ClassicFound) => delCk.deletions = <<>>

\* What FindDeletions does: the classic load balancer is scheduled for
\* deletion exactly when CLBName is set and the lookup finds it.
DeletionIffClassicFound ==
    DeletionsFound =>
        /\ delCk.deletions # <<>> <=> ClassicFound
        /\ ClassicFound =>
             delCk.deletions = <<[LoadBalancerName |-> delCk.cloud.clb.LoadBalancerName]>>

\* C20: a classic load balancer that still has registered instances is never
\* returned as a deletion.
C20_NoDeletionWhileTargetsRemain ==
    (DeletionsFound /\ ~delCk.cloud.clb.nil /\ delCk.cloud.clb.Instances > 0)
        => delCk.deletions = <<>>

(***************************************************************************)
(* Properties of the creation made by RenderAWS (SpecNLB)                  *)
(***************************************************************************)
NLBRenderedCreate == nlbOut.stage = "render" /\ nlbOut.a = NilNLB

CallsOf(op) == { i \in 1..Len(nlbOut.calls) : nlbOut.calls[i].op = op }

\* every CreateListener comes after a WaitUntilLoadBalancerAvailable; a wait
\* that fails ends the render, so the one before a later call has succeeded
ListenersAfterWait ==
    \A i \in CallsOf("CreateListener") :
        \E j \in CallsOf("WaitUntilLoadBalancerAvailable") : j < i

HasKopsControllerTargetGroup ==
    \E i \in 1..Len(nlbTask.TargetGroups) :
        nlbTask.TargetGroups[i].Name = KopsControllerTargetGroupName

\* C16 as stated: on creation, for every set of target groups, RenderAWS
\* issues no CreateListener before WaitUntilLoadBalancerAvailable has
\* returned successfully.
C16_ListenersOnlyAfterAvailable == NLBRenderedCreate => ListenersAfterWait

\* C16 amended: on creation RenderAWS waits for the load balancer exactly when
\* the task has a target group whose name starts with "kops-controller"; then
\* no CreateListener is issued before the wait has returned successfully, and
\* none at all when the wait fails.  Without such a target group it does not
\* wait and creates the listeners right after CreateLoadBalancer.
C16_WaitOnlyForKopsController ==
    NLBRenderedCreate =>
        /\ HasKopsControllerTargetGroup => ListenersAfterWait
        /\ (HasKopsControllerTargetGroup /\ nlbOut.err = Errorf("error waiting for NLB"))
              => CallsOf("CreateListener") = {}
        /\ ~HasKopsControllerTargetGroup => CallsOf("WaitUntilLoadBalancerAvailable") = {}

\* a creation that waited and then created both listeners
C16_Witness ==
    /\ NLBRenderedCreate
    /\ HasKopsControllerTargetGroup
    /\ Cardinality(CallsOf("WaitUntilLoadBalancerAvailable")) = 1
    /\ Cardinality(CallsOf("CreateListener")) = 2
    /\ nlbOut.err = NoError

(***************************************************************************)
(* Properties of the OpenStack cloud (SpecOpenstack)                       *)
(***************************************************************************)
LBClientStage == osCk.pc = "done" /\ osCk.fn = "buildClients" /\ osCk.out.stage = "lb"

OsHasLoadbalancer == ~osCk.spec.nil /\ ~osCk.spec.Loadbalancer.nil
OsHasRouter == ~osCk.spec.nil /\ ~osCk.spec.Router.nil
OsUseOctavia == OsHasLoadbalancer /\ osCk.spec.Loadbalancer.UseOctavia = "true"

FloatingNetworkLookupFails ==
    /\ OsHasLoadbalancer
    /\ OsHasRouter
    /\ osCk.spec.Loadbalancer.FloatingNetworkID = Nil
    /\ osCk.spec.Loadbalancer.FloatingNetwork # Nil
    /\ (osCk.env.listFails \/ Len(osCk.env.networks) # 1)

OctaviaWithoutRouter == OsUseOctavia /\ ~OsHasRouter

\* the catalog has no endpoint for the Octavia client the spec asks for
NoOctaviaEndpoint ==
    /\ OsUseOctavia
    /\ OsHasRouter
    /\ ~FloatingNetworkLookupFails
    /\ "load-balancer" \notin osCk.env.endpoints

\* the selection of the client, building failing exactly in the given cases
LBClientSelection(failureCases) ==
    LBClientStage =>
        /\ osCk.out.err # NoError <=> failureCases
        /\ osCk.out.err = NoError =>
             /\ osCk.out.c.lbClient = Nil <=> ~OsHasLoadbalancer
             /\ OsHasLoadbalancer =>
                  osCk.out.c.lbClient =
                      IF OsHasRouter /\ OsUseOctavia THEN "load-balancer" ELSE "network"

\* C17 as stated: the load balancer client is nil iff the spec has no
\* Loadbalancer section; building fails iff UseOctavia is true and no Router
\* is configured, or the floating network lookup fails; otherwise the client
\* is the Octavia "load-balancer" client iff a Router is configured and
\* UseOctavia is true, and the "network" client in every other case.
C17_LBClientSelection ==
    LBClientSelection(OctaviaWithoutRouter \/ FloatingNetworkLookupFails)

\* C17 amended: building also fails when the client of the chosen service
\* cannot be built.
C17_LBClientSelectionOrNoEndpoint ==
    LBClientSelection(OctaviaWithoutRouter \/ FloatingNetworkLookupFails \/ NoOctaviaEndpoint)

\* a router, UseOctavia and a derived floating network: the Octavia client
C17_Witness ==
    /\ LBClientStage
    /\ osCk.out.err = NoError
    /\ osCk.out.c.lbClient = "load-balancer"
    /\ osCk.out.spec.Loadbalancer.FloatingNetworkID = NetworkID(1)

IngressDone == osCk.pc = "done" /\ osCk.fn = "getApiIngressStatus"
IngressIPs == {osCk.out.ingresses[k] : k \in 1..Len(osCk.out.ingresses)}

\* the load balancers of the cloud listed under the name of the API
ApiLBs ==
    {osCk.cloud.lbs[i] : i \in {j \in 1..Len(osCk.cloud.lbs) :
        osCk.cloud.lbs[j].Name = IF osCk.cluster.PublicName = ""
                                 THEN "api." \o osCk.cluster.Name
                                 ELSE osCk.cluster.PublicName}}

\* the floating IPs on the VIP port of one of them
ApiLBFloatingIPs ==
    {osCk.cloud.fips[i].FloatingIP : i \in {j \in 1..Len(osCk.cloud.fips) :
        \E lb \in ApiLBs : osCk.cloud.fips[j].PortID = lb.VipPortID}}

\* C18: with a load balancer configured, GetApiIngressStatus returns exactly
\* the floating IPs whose PortID equals the VipPortID of a load balancer
\* listed under API.PublicName ("api." + cluster name when PublicName is
\* empty); a floating IP on another port is never returned, and with no such
\* load balancer the result is empty with no error.
C18_LBIngressIsVipFloatingIPs ==
    (IngressDone /\ osCk.cluster.Loadbalancer) =>
        /\ IngressIPs \subseteq ApiLBFloatingIPs
        /\ osCk.out.err = NoError => IngressIPs = ApiLBFloatingIPs
        /\ (ApiLBs = {} /\ osCk.env.fail.call # "ListLBs")
              => (osCk.out.ingresses = <<>> /\ osCk.out.err = NoError)

\* two load balancers under the public name, on port-1 and port-2, and
\* floating IPs on port-1, port-2 and port-3: the first two are returned
C18_Witness ==
    /\ IngressDone
    /\ osCk.cluster.Loadbalancer
    /\ osCk.cluster.PublicName = "api.example.com"
    /\ osCk.out.err = NoError
    /\ Len(osCk.cloud.fips) = 4
    /\ osCk.out.ingresses = <<"198.51.100.11", "198.51.100.12">>

\* C19: with no load balancer configured, every address GetApiIngressStatus
\* returns belongs to an instance whose metadata "k8s" is the cluster name and
\* whose "KopsRole" parses to the control-plane role; an instance with the
\* role Node, or of another cluster, contributes no address.
C19_IPIngressFromControlPlaneOnly ==
    (IngressDone /\ ~osCk.cluster.Loadbalancer) =>
        \A ip \in IngressIPs :
            \E i \in 1..Len(osCk.cloud.instances) :
                /\ ip \in {FixedIPOf(osCk.cloud.instances[i].ID),
                           FloatingIPOf(osCk.cloud.instances[i].ID)}
                /\ osCk.cloud.instances[i].Metadata.k8s = osCk.cluster.Name
                /\ osCk.cloud.instances[i].Metadata.KopsRole = "ControlPlane"

\* a Node with a fixed IP and a control-plane instance without one: the
\* floating IP of the second is the only address
C19_Witness ==
    /\ IngressDone
    /\ ~osCk.cluster.Loadbalancer
    /\ Len(osCk.cloud.instances) = 2
    /\ osCk.cloud.instances[1].Metadata = [k8s |-> OsClusterName, KopsRole |-> "Node"]
    /\ osCk.cloud.instances[1].fixed
    /\ osCk.out.ingresses = <<FloatingIPOf(2)>>

(***************************************************************************)
(* Properties of the servers of an instance group (SpecScwOk, SpecScw)     *)
(***************************************************************************)
\* C21: after any sequence of successful renders on one instance group
\* (creation, scale-up, scale-down, scale-up again), no two live servers of
\* the group have the same name.
C21_ServerNamesUnique ==
    \A i, j \in 1..Len(scwServers) :
        i # j => scwServers[i].Name # scwServers[j].Name

\* What the renders keep: the group has the number of servers the last
\* successful render was asked for.
ServerCountAsRendered ==
    scwOut.stage = "render" => Len(scwServers) = scwTask.Count

CreateServerCalls ==
    IF scwOut.stage = "render"
    THEN { i \in 1..Len(scwOut.calls) : scwOut.calls[i].op = "CreateServer" }
    ELSE {}

BlockStorageOnly(commercialType) ==
    \E k \in 1..Len(commercialTypesWithBlockStorageOnly) :
        HasPrefix(commercialType, commercialTypesWithBlockStorageOnly[k])

\* C22: the create request of a server carries the 50 GB boot block-storage
\* volume if and only if the commercial type starts with "PRO", "PLAY" or
\* "ENT"; for every other commercial type it carries no Volumes entry.
C22_VolumeIffBlockStorageOnly ==
    \A i \in CreateServerCalls :
        scwOut.calls[i].volumes <=> BlockStorageOnly(ValueOf(scwTask.CommercialType))

\* What RenderScw does: every create request carries the volume.
VolumeInEveryCreateRequest ==
    \A i \in CreateServerCalls : scwOut.calls[i].volumes

\* the positions of the calls of op in calls
CallsIn(calls, op) == { i \in 1..Len(calls) : calls[i].op = op }

\* every listener of live has its DeleteListener in calls before position c
DeletedBefore(calls, live, c) ==
    \A i \in 1..Len(live) :
        \E d \in CallsIn(calls, "DeleteListener") : d < c /\ calls[d].arg = live[i]

\* the k-th CreateListener of calls is the one for listeners[k]: it carries
\* the ARN of lb and the ARN of a target group of that name, which is not ""
CreatesCarryARNs(calls, listeners, targetGroups, lb) ==
    /\ Cardinality(CallsIn(calls, "CreateListener")) <= Len(listeners)
    /\ \A c \in CallsIn(calls, "CreateListener") :
         \E k \in {Cardinality({ x \in CallsIn(calls, "CreateListener") : x <= c })} :
            /\ calls[c].arg.LoadBalancerArn = LoadBalancerArn(lb)
            /\ calls[c].arg.TargetGroupArn # ""
            /\ calls[c].arg.Port = listeners[k].Port
            /\ \E t \in 1..Len(targetGroups) :
                  /\ ValueOf(targetGroups[t].Name) = listeners[k].TargetGroupName
                  /\ ValueOf(targetGroups[t].ARN) = calls[c].arg.TargetGroupArn

\* a listener whose target group the task does not have gets no CreateListener:
\* the render ends at it with an error
UnknownTargetGroupIsError(calls, err, listeners, targetGroups) ==
    \A k \in 1..Len(listeners) :
        (\A t \in 1..Len(targetGroups) :
            ValueOf(targetGroups[t].Name) # listeners[k].TargetGroupName)
        => /\ Cardinality(CallsIn(calls, "CreateListener")) < k
           /\ err # NoError

ListenersReplaced(live, lb, targetGroups, out) ==
    /\ \A c \in CallsIn(out.calls, "CreateListener") : DeletedBefore(out.calls, live, c)
    /\ out.err = Errorf("error deleting load balancer listener")
          => CallsIn(out.calls, "CreateListener") = {}
    /\ CreatesCarryARNs(out.calls, out.changes.Listeners, targetGroups, lb)
    /\ UnknownTargetGroupIsError(out.calls, out.err, out.changes.Listeners, targetGroups)

\* C23: in an update whose changes carry Listeners, every listener the load
\* balancer has is deleted before any listener is created, no listener is
\* created when a DeleteListener fails, every CreateListener carries the ARN
\* of the load balancer and the non-empty ARN of the target group the listener
\* names, and a listener naming a target group the task does not have ends
\* the render with an error and without a CreateListener for it.
C23_ListenerReplacement ==
    [][ (nlbOut'.stage = "render" /\ nlbOut'.a # NilNLB
            /\ "Listeners" \in nlbOut'.changes.set)
        => ListenersReplaced(nlbCloud.Listeners, nlbCloud, nlbTask.TargetGroups, nlbOut') ]_vars

\* an update that deleted the two listeners of the load balancer and then
\* created the listener of the task
C23_Witness ==
    /\ nlbOut.stage = "render" /\ nlbOut.a # NilNLB /\ nlbOut.err = NoError
    /\ Cardinality(CallsOf("DeleteListener")) = 2
    /\ CallsOf("CreateListener") # {}
    /\ \A d \in CallsOf("DeleteListener"), c \in CallsOf("CreateListener") : d < c

\* an update that ended at the listener naming an unknown target group, after
\* the listeners of the load balancer were deleted
C23_UnknownTargetGroupReached ==
    /\ nlbOut.stage = "render" /\ nlbOut.a # NilNLB
    /\ nlbOut.err = Errorf("target group not found for NLB listener")
    /\ CallsOf("DeleteListener") # {}

\* the fields of the expected task Find may write
NLBFindWrites == {"LoadBalancerName", "DNSName", "HostedZoneId", "IpAddressType"}

NLBFindFound == findCk.pc = "done" /\ findCk.which = "nlb" /\ findCk.actual # NilNLB

C24_UnsetFilledIn ==
    /\ NLBFindFound
    /\ findCk.task.LoadBalancerName = Nil /\ findCk.task.DNSName = Nil
    /\ findCk.e.LoadBalancerName = "api-cluster1"
    /\ findCk.e.DNSName = "api-cluster1.elb.amazonaws.com"
    /\ findCk.e.HostedZoneId = "Z26RNL4JYFTOTI"

\* the errors of a creation the task itself causes, checked before
\* CreateLoadBalancer (lines 551-563) and found by mapToAWS (lines 618-622)
NLBValidationErrors ==
    {Errorf("nlb listeners and target groups do not match"),
     RequiredField("LoadBalancerName"),
     Errorf("missing required target group ARN for NLB creation")}
NLBMappingError == Errorf("target group not found for NLB listener")

\* C25 as stated: whenever RenderAWS on creation returns an error the task
\* itself causes (listener and target-group counts differ, LoadBalancerName
\* unset, a target group without ARN, a listener naming no target group of
\* the task), CreateLoadBalancer has not been called.
C25_CreationValidatesBeforeMutating ==
    (NLBRenderedCreate /\ nlbOut.err \in NLBValidationErrors \cup {NLBMappingError})
        => CallsOf("CreateLoadBalancer") = {}

\* What RenderAWS does: the three checks of lines 551-563 come before
\* CreateLoadBalancer; the listener naming no target group is found after it.
CreationChecksBeforeCreate ==
    (NLBRenderedCreate /\ nlbOut.err \in NLBValidationErrors)
        => nlbOut.calls = <<>>

\* a creation that ended at the listener naming an unknown target group with
\* the load balancer and its first listener created
HalfCreatedLoadBalancer ==
    /\ NLBRenderedCreate
    /\ nlbOut.err = NLBMappingError
    /\ CallsOf("CreateLoadBalancer") # {}
    /\ nlbCloud # NoLB
    /\ Len(nlbCloud.Listeners) = 1

\* an update whose lookup by name found no load balancer: the one Find saw is
\* gone when RenderAWS looks it up
NLBLookupFoundNothing == NLBRenderedUpdate /\ nlbCloud = NoLB

\* C26: when the lookup by name of an update returns no load balancer (nil,
\* nil), RenderAWS returns an error and issues no further call; it does not
\* dereference the nil result.
C26_MissingLoadBalancerIsError ==
    NLBLookupFoundNothing =>
        /\ nlbOut.err.kind = "error"
        /\ nlbOut.calls = <<>>

\* What RenderAWS does: line 639 reads lb.LoadBalancerArn of the nil result,
\* and the apply ends in a panic before any call.
MissingLoadBalancerPanics ==
    NLBLookupFoundNothing =>
        /\ nlbOut.err = Panic("nil pointer dereference")
        /\ nlbOut.calls = <<>>

(***************************************************************************)
(* Properties of nodeup.NewConfig (SpecNodeup)                             *)
(***************************************************************************)
\* the config NewConfig builds for the instance group from the cluster as
\* loaded
ConfigOfLoadedCluster(ig) == NewConfig(nodeup.cluster0, ig).config

\* C27: NewConfig does not modify its cluster argument: after the configs of
\* any instance groups are built the cluster spec is as it was loaded, and
\* the config built for an instance group is the one built from the cluster
\* as loaded, whichever instance groups were built before it.
C27_NewConfigLeavesClusterUnchanged ==
    nodeup.pc = "build" =>
        /\ nodeup.cluster = nodeup.cluster0
        /\ \A i \in 1..Len(nodeup.built) :
              nodeup.built[i].config = ConfigOfLoadedCluster(nodeup.built[i].ig)

\* What NewConfig leaves alone: the kube-proxy config of the cluster, and the
\* containerd config but for its NvidiaGPU.
KubeProxyLeftUnchanged ==
    nodeup.pc = "build" =>
        /\ nodeup.cluster.KubeProxy = nodeup.cluster0.KubeProxy
        /\ nodeup.cluster.IsolateControlPlane = nodeup.cluster0.IsolateControlPlane
        /\ (nodeup.cluster0.Containerd = NilStruct) = (nodeup.cluster.Containerd = NilStruct)
        /\ nodeup.cluster0.Containerd # NilStruct
              => nodeup.cluster.Containerd.Version = nodeup.cluster0.Containerd.Version

\* the first call has written the default driver package into the cluster,
\* and the second call has built another containerd config for the same
\* instance group
ConfigDependsOnEarlierBuilds ==
    /\ nodeup.pc = "build"
    /\ Len(nodeup.built) = 2
    /\ nodeup.built[1].ig = nodeup.built[2].ig
    /\ nodeup.built[1].ig.Containerd = NilStruct
    /\ nodeup.built[1].config # nodeup.built[2].config

\* the AWS authentication spec of the cluster is gone after the config of an
\* instance group with an API server was built
AWSAuthenticationLost ==
    /\ nodeup.pc = "build"
    /\ nodeup.cluster0.Authentication # NilStruct
    /\ nodeup.cluster0.Authentication.AWS = AWSAuthenticationSpec("aws-iam-authenticator:v0.6.11")
    /\ nodeup.cluster.Authentication.AWS = AWSAuthenticationSpec("")

(***************************************************************************)
(* Properties of AddFirewallRulesTasks (SpecFirewall)                      *)
(***************************************************************************)
FwReturned == gceFw.pc = "done" /\ ~gceFw.c.fatal

\* the tasks the call has added
FwAdded == SubSeq(gceFw.c.tasks, Len(gceFw.before.tasks) + 1, Len(gceFw.c.tasks))

\* the family a source range is of, by its notation
FamilyOf(sourceRange) == FwRangeOf(sourceRange).family

FwCatchAll(family) == IF family = "ipv4" THEN "0.0.0.0/0" ELSE "::/0"

Occurs(x, seq) == \E j \in 1..Len(seq) : seq[j] = x

\* the rule of a family holds the source ranges of the call that are of the
\* family and no other; when there is none it is disabled and holds the
\* catch-all range of the family
FwRuleOfFamily(task, rule) ==
    LET mine == { i \in 1..Len(rule.SourceRanges) :
                    FamilyOf(rule.SourceRanges[i]) = task.Family }
    IN  /\ \A i \in 1..Len(rule.SourceRanges) :
              Occurs(rule.SourceRanges[i], task.SourceRanges) <=> i \in mine
        /\ IF mine = {}
           THEN task.Disabled /\ task.SourceRanges = <<FwCatchAll(task.Family)>>
           ELSE /\ Len(task.SourceRanges) = Cardinality(mine)
                /\ task.Disabled = rule.Disabled
        /\ ~task.Disabled => task.SourceRanges # <<>>

\* C28: AddFirewallRulesTasks registers exactly two rules, one of IPv4 and one
\* of IPv6, under distinct names; every source range of the call is in
\* exactly one of them, the one of its family, an IPv4-mapped IPv6 range
\* being of IPv6; a rule whose family has no source range is Disabled and
\* holds the catch-all range, so no enabled rule is without source ranges; the
\* IPv6 rule allows "58" where the call allows "icmp" and every other
\* protocol as given, the IPv4 rule allows what the call allows.
C28_TwoRulesByFamily ==
    FwReturned =>
        /\ gceFw.c.err = NoError
        /\ Len(FwAdded) = 2
        /\ FwAdded[1].Family = "ipv4" /\ FwAdded[2].Family = "ipv6"
        /\ FwAdded[1].Name # FwAdded[2].Name
        /\ \A k \in 1..2 : FwRuleOfFamily(FwAdded[k], gceFw.rule)
        /\ FwAdded[1].Allowed = gceFw.rule.Allowed
        /\ Len(FwAdded[2].Allowed) = Len(gceFw.rule.Allowed)
        /\ \A i \in 1..Len(gceFw.rule.Allowed) :
              FwAdded[2].Allowed[i] = IF gceFw.rule.Allowed[i] = "icmp" THEN "58"
                                      ELSE gceFw.rule.Allowed[i]

\* a call with an IPv4 range and an IPv4-mapped IPv6 range that allows icmp:
\* each rule holds one of the two, the IPv6 rule allows 58
C28_Witness ==
    /\ FwReturned
    /\ gceFw.rule.SourceRanges = <<"::ffff:10.0.0.0/104", "10.0.0.0/8">>
    /\ Occurs("icmp", gceFw.rule.Allowed)
    /\ FwAdded[1].SourceRanges = <<"10.0.0.0/8">>
    /\ FwAdded[2].SourceRanges = <<"::ffff:10.0.0.0/104">>
    /\ Occurs("58", FwAdded[2].Allowed)

\* a call without source ranges: both rules are disabled
C28_BothDisabled ==
    /\ FwReturned
    /\ gceFw.rule.SourceRanges = <<>> /\ ~gceFw.rule.Disabled
    /\ FwAdded[1].Disabled /\ FwAdded[2].Disabled

\* a call with a source range that does not parse ends the process with no
\* task added
FwFatalAddsNothing ==
    (gceFw.pc = "done" /\ gceFw.c.fatal) => gceFw.c.tasks = gceFw.before.tasks
====
